---- MODULE Spec2Model ----
(***************************************************************************)
(* A model of the deepnote voice: the frequency-animation state machine of *)
(* DeepnoteVoice (src/src/voice/deepnotevoice.hpp) with the value types it *)
(* is built from (Range, Scaler, BezierUnitShaper) and the ramp oscillator *)
(* that serves as its progress clock.                                      *)
(*                                                                         *)
(* A C++ float is modelled as an exact rational n/d in lowest terms, or    *)
(* as one of the three non-finite values: d = 0 with n = 1 (+Infinity),    *)
(* n = -1 (-Infinity) or n = 0 (NaN).  Arithmetic and comparisons follow   *)
(* IEEE 754 for the non-finite values (NaN is absorbing, every ordered     *)
(* comparison with NaN is false, 0 * Infinity and Infinity - Infinity are  *)
(* NaN); signed zeros are not modelled.  The voice is modelled in exact    *)
(* arithmetic.  The value types on their own, and the first process_voice  *)
(* call of a transition, are also modelled in rounded arithmetic (the fl_  *)
(* definitions): binary floating point with a significand of               *)
(* SignificandBits bits instead of the 24 of a float, every operation      *)
(* rounded to nearest, ties to even, exponent range unbounded.             *)
(***************************************************************************)
EXTENDS Integers, Sequences, FiniteSets, TLC

-----------------------------------------------------------------------------
(* float                                                                   *)

Abs(i) == IF i < 0 THEN -i ELSE i

Sign(i) == IF i < 0 THEN -1 ELSE IF i > 0 THEN 1 ELSE 0

RECURSIVE Gcd(_, _)
Gcd(a, b) == IF b = 0 THEN a ELSE Gcd(b, a % b)

\* the rational n/d, d > 0, in lowest terms
Norm(n, d) == LET g == Gcd(Abs(n), d) IN [n |-> n \div g, d |-> d \div g]

F(i) == [n |-> i, d |-> 1]

NaN == [n |-> 0, d |-> 0]

PosInf == [n |-> 1, d |-> 0]

NegInf == [n |-> -1, d |-> 0]

IsNaN(x) == x.d = 0 /\ x.n = 0

IsInf(x) == x.d = 0 /\ x.n # 0

IsFinite(x) == x.d > 0

IsZero(x) == x.d > 0 /\ x.n = 0

FNeg(x) == [n |-> -x.n, d |-> x.d]

FAdd(x, y) ==
    IF IsNaN(x) \/ IsNaN(y) THEN NaN
    ELSE IF x.d = 0 /\ y.d = 0 THEN (IF x.n = y.n THEN x ELSE NaN)
    ELSE IF x.d = 0 THEN x
    ELSE IF y.d = 0 THEN y
    ELSE LET g == Gcd(x.d, y.d)
         IN  Norm(x.n * (y.d \div g) + y.n * (x.d \div g), (x.d \div g) * y.d)

FSub(x, y) == FAdd(x, FNeg(y))

FMul(x, y) ==
    IF IsNaN(x) \/ IsNaN(y) THEN NaN
    ELSE IF x.d = 0 \/ y.d = 0
         THEN (IF IsZero(x) \/ IsZero(y) THEN NaN
               ELSE [n |-> Sign(x.n) * Sign(y.n), d |-> 0])
    ELSE LET g1 == Gcd(Abs(x.n), y.d)
             g2 == Gcd(Abs(y.n), x.d)
         IN  [n |-> (x.n \div g1) * (y.n \div g2), d |-> (x.d \div g2) * (y.d \div g1)]

FDiv(x, y) ==
    IF IsNaN(x) \/ IsNaN(y) THEN NaN
    ELSE IF x.d = 0 /\ y.d = 0 THEN NaN
    ELSE IF y.d = 0 THEN F(0)
    ELSE IF x.d = 0 THEN [n |-> x.n * (IF y.n < 0 THEN -1 ELSE 1), d |-> 0]
    ELSE IF y.n = 0 THEN (IF x.n = 0 THEN NaN ELSE [n |-> Sign(x.n), d |-> 0])
    ELSE FMul(x, [n |-> Sign(y.n) * y.d, d |-> Abs(y.n)])

FLt(x, y) ==
    /\ ~IsNaN(x)
    /\ ~IsNaN(y)
    /\ IF x.d = 0 /\ y.d = 0 THEN x.n < y.n
       ELSE IF x.d = 0 THEN x.n < 0
       ELSE IF y.d = 0 THEN y.n > 0
       ELSE LET g == Gcd(x.d, y.d)
            IN  x.n * (y.d \div g) < y.n * (x.d \div g)

FGt(x, y) == FLt(y, x)

FEq(x, y) == ~IsNaN(x) /\ ~IsNaN(y) /\ x = y

FLe(x, y) == FLt(x, y) \/ FEq(x, y)

FGe(x, y) == FLe(y, x)

\* std::min(a, b) and std::max(a, b)
StdMin(a, b) == IF FLt(b, a) THEN b ELSE a

StdMax(a, b) == IF FLt(a, b) THEN b ELSE a

FAbs(x) == [n |-> Abs(x.n), d |-> x.d]

\* the number of bits of the significand in rounded arithmetic
SignificandBits == 4

\* n/d scaled by a power of two into [2^(SignificandBits-1), 2^SignificandBits):
\* n/d of the argument is the n/d of the result times 2^e
RECURSIVE fl_scaled(_, _, _)
fl_scaled(n, d, e) ==
    IF n >= d * 2^SignificandBits THEN fl_scaled(n, 2 * d, e + 1)
    ELSE IF n < d * 2^(SignificandBits - 1) THEN fl_scaled(2 * n, d, e - 1)
    ELSE [n |-> n, d |-> d, e |-> e]

\* the float nearest to x, ties to the even significand, s being |x| scaled
fl_nearest(x, s) ==
    LET q == s.n \div s.d
        r == s.n % s.d
        m == IF 2 * r < s.d THEN q
             ELSE IF 2 * r > s.d THEN q + 1
             ELSE IF q % 2 = 0 THEN q ELSE q + 1
    IN  IF s.e >= 0 THEN F(Sign(x.n) * m * 2^(s.e))
        ELSE Norm(Sign(x.n) * m, 2^(-(s.e)))

fl(x) ==
    IF x.d = 0 \/ x.n = 0 THEN x
    ELSE CHOOSE r \in {fl_nearest(x, s) : s \in {fl_scaled(Abs(x.n), x.d, 0)}} : TRUE

\* the operations of float arithmetic: the operands are values (each is
\* evaluated once), the result is the exact result rounded
fl_add(x, y) == CHOOSE r \in {fl(FAdd(a, b)) : a \in {x}, b \in {y}} : TRUE

fl_sub(x, y) == CHOOSE r \in {fl(FSub(a, b)) : a \in {x}, b \in {y}} : TRUE

fl_mul(x, y) == CHOOSE r \in {fl(FMul(a, b)) : a \in {x}, b \in {y}} : TRUE

fl_div(x, y) == CHOOSE r \in {fl(FDiv(a, b)) : a \in {x}, b \in {y}} : TRUE

\* the distance from 1 to the next float
Epsilon == Norm(1, 2^(SignificandBits - 1))

-----------------------------------------------------------------------------
(* Range                                                                   *)

\* Range, had it kept its arguments in the order given
Range_unordered(low, high) == [low |-> low, high |-> high]

Range(low, high) ==
    [low  |-> IF FLt(low, high) THEN low ELSE high,
     high |-> IF FGt(high, low) THEN high ELSE low]

length(r) == FSub(r.high, r.low)

fl_length(r) == fl_sub(r.high, r.low)

\* contains, had it tested the open interval
contains_open(r, value) == FGt(value, r.low) /\ FLt(value, r.high)

contains(r, value) == FGe(value, r.low) /\ FLe(value, r.high)

constrain(r, value) ==
    IF FLt(value, r.low) THEN r.low
    ELSE IF FGt(value, r.high) THEN r.high
    ELSE value

-----------------------------------------------------------------------------
(* Scaler                                                                  *)

Scaler(input, output) == [input |-> input, output |-> output]

normalize(s, value) == FDiv(FSub(value, s.input.low), length(s.input))

scale(s, value) == FAdd(FMul(normalize(s, value), length(s.output)), s.output.low)

\* Scaler::operator(), had it clamped its result into the output range
fl_scale_clamped(s, value) ==
    constrain(s.output,
              fl_add(fl_mul(fl_div(fl_sub(value, s.input.low), fl_length(s.input)),
                            fl_length(s.output)),
                     s.output.low))

\* normalize, had it not taken the low end of the input range off the value
fl_normalize_no_offset(s, value) == fl_div(value, fl_length(s.input))

fl_normalize(s, value) == fl_div(fl_sub(value, s.input.low), fl_length(s.input))

fl_scale(s, value) ==
    fl_add(fl_mul(fl_normalize(s, value), fl_length(s.output)), s.output.low)

-----------------------------------------------------------------------------
(* BezierUnitShaper                                                        *)

\* a shaper whose curve ends at its second control point
BezierUnitShaper_free_end(y2, y3) == [y1 |-> F(0), y2 |-> y2, y3 |-> y3, y4 |-> y3]

BezierUnitShaper(y2, y3) == [y1 |-> F(0), y2 |-> y2, y3 |-> y3, y4 |-> F(1)]

shape(b, t) ==
    LET u  == FSub(F(1), t)
        a1 == FMul(FMul(u, u), b.y1)
        a2 == FMul(FMul(FMul(FMul(F(3), u), u), t), b.y2)
        a3 == FMul(FMul(FMul(FMul(F(3), u), t), t), b.y3)
        a4 == FMul(FMul(FMul(t, t), t), b.y4)
    IN  FAdd(FAdd(FAdd(a1, a2), a3), a4)

fl_shape(b, t) ==
    LET u  == fl_sub(F(1), t)
        a1 == fl_mul(fl_mul(u, u), b.y1)
        a2 == fl_mul(fl_mul(fl_mul(fl_mul(F(3), u), u), t), b.y2)
        a3 == fl_mul(fl_mul(fl_mul(fl_mul(F(3), u), t), t), b.y3)
        a4 == fl_mul(fl_mul(fl_mul(t, t), t), b.y4)
    IN  fl_add(fl_add(fl_add(a1, a2), a3), a4)

-----------------------------------------------------------------------------
(* constants of deepnotevoice.hpp                                          *)

MAX_OSCILLATORS == 16

TARGET_FREQUENCY_TOLERANCE == 1

\* DEFAULT_LFO_AMPLITUDE, 0.5f
LFO_AMPLITUDE == Norm(1, 2)

DEFAULT_DETUNE_HZ == Norm(5, 2)

States == {"PENDING_TRANSIT_TO_TARGET", "IN_TRANSIT_TO_TARGET", "AT_TARGET"}

-----------------------------------------------------------------------------
(* daisysp::Oscillator as the voice uses it for its LFO: a ramp over one   *)
(* cycle, phase in units of one cycle                                      *)

lfo_Init(lfo, sample_rate) ==
    [sr_recip |-> FDiv(F(1), sample_rate), phase |-> F(0),
     phase_inc |-> FMul(F(100), FDiv(F(1), sample_rate)), amp |-> Norm(1, 2)]

lfo_SetAmp(lfo, a) == [lfo EXCEPT !.amp = a]

lfo_SetFreq(lfo, f) == [lfo EXCEPT !.phase_inc = FMul(f, lfo.sr_recip)]

lfo_Reset(lfo) == [lfo EXCEPT !.phase = F(0)]

\* WAVE_RAMP: the sample is read from the phase, then the phase advances
\* and wraps once it has passed the end of the cycle
lfo_Out(lfo) == FMul(FSub(FMul(lfo.phase, F(2)), F(1)), lfo.amp)

lfo_Advance(lfo) ==
    LET p == FAdd(lfo.phase, lfo.phase_inc)
    IN  [lfo EXCEPT !.phase = IF FGt(p, F(1)) THEN FSub(p, F(1)) ELSE p]

-----------------------------------------------------------------------------
(* DeepnoteVoice: every method maps a voice v to the voice after the call; *)
(* a method that can throw returns [v, thrown], v being the voice as the   *)
(* exception leaves it                                                     *)

Ok(v) == [v |-> v, thrown |-> FALSE]

Throw(v) == [v |-> v, thrown |-> TRUE]

NewVoice ==
    [state             |-> "PENDING_TRANSIT_TO_TARGET",
     start_frequency   |-> F(0),
     target_frequency  |-> F(0),
     current_frequency |-> F(0),
     oscillators       |-> [i \in 1..MAX_OSCILLATORS |-> [freq |-> F(0), detune_amount |-> F(0)]],
     oscillator_count  |-> 0,
     lfo_base_freq     |-> F(0),
     lfo               |-> [sr_recip |-> F(0), phase |-> F(0), phase_inc |-> F(0), amp |-> F(0)]]

\* set_target_frequency, had it kept a target that is still pending
set_target_frequency_first_wins(v, freq) ==
    IF FLt(freq, F(0)) THEN Throw(v)
    ELSE IF v.state = "PENDING_TRANSIT_TO_TARGET" THEN Ok(v)
    ELSE Ok([v EXCEPT !.start_frequency  = v.current_frequency,
                      !.target_frequency = freq,
                      !.state            = "PENDING_TRANSIT_TO_TARGET"])

\* set_target_frequency, had it accepted every frequency
set_target_frequency_unchecked(v, freq) ==
    Ok([v EXCEPT !.start_frequency  = v.current_frequency,
                 !.target_frequency = freq,
                 !.state            = "PENDING_TRANSIT_TO_TARGET"])

\* set_target_frequency, had it left the state as it was
set_target_frequency_no_rearm(v, freq) ==
    IF FLt(freq, F(0)) THEN Throw(v)
    ELSE Ok([v EXCEPT !.start_frequency  = v.current_frequency,
                      !.target_frequency = freq])

\* set_target_frequency, had it kept the start of the transit before
set_target_frequency_keep_start(v, freq) ==
    IF FLt(freq, F(0)) THEN Throw(v)
    ELSE Ok([v EXCEPT !.target_frequency = freq,
                      !.state            = "PENDING_TRANSIT_TO_TARGET"])

\* set_target_frequency, had it kept the target of the transit before
set_target_frequency_stale(v, freq) ==
    IF FLt(freq, F(0)) THEN Throw(v)
    ELSE Ok([v EXCEPT !.start_frequency  = v.current_frequency,
                      !.state            = "PENDING_TRANSIT_TO_TARGET"])

set_target_frequency(v, freq) ==
    IF FLt(freq, F(0)) THEN Throw(v)
    ELSE Ok([v EXCEPT !.start_frequency  = v.current_frequency,
                      !.target_frequency = freq,
                      !.state            = "PENDING_TRANSIT_TO_TARGET"])

\* set_start_frequency, had it left the current frequency where it was
set_start_frequency_keep_current(v, freq) ==
    IF FLt(freq, F(0)) THEN Throw(v)
    ELSE Ok([v EXCEPT !.start_frequency = freq,
                      !.state           = "PENDING_TRANSIT_TO_TARGET"])

\* set_start_frequency, had it validated after it assigned
set_start_frequency_late_check(v, freq) ==
    LET w == [v EXCEPT !.start_frequency   = freq,
                       !.current_frequency = freq,
                       !.state             = "PENDING_TRANSIT_TO_TARGET"]
    IN  IF FLt(freq, F(0)) THEN Throw(w) ELSE Ok(w)

set_start_frequency(v, freq) ==
    IF FLt(freq, F(0)) THEN Throw(v)
    ELSE Ok([v EXCEPT !.start_frequency   = freq,
                      !.current_frequency = freq,
                      !.state             = "PENDING_TRANSIT_TO_TARGET"])

\* set_current_frequency, had it moved the start of the transit as well
set_current_frequency_and_start(v, freq) ==
    [v EXCEPT !.current_frequency = freq, !.start_frequency = freq]

set_current_frequency(v, freq) == [v EXCEPT !.current_frequency = freq]

\* scale_lfo_base_freq, had it left the multiplier out of the clock rate
scale_lfo_base_freq_unscaled(v, multiplier) ==
    IF FLt(multiplier, F(0)) THEN Throw(v)
    ELSE Ok([v EXCEPT !.lfo = lfo_SetFreq(v.lfo, v.lfo_base_freq)])

scale_lfo_base_freq(v, multiplier) ==
    IF FLt(multiplier, F(0)) THEN Throw(v)
    ELSE Ok([v EXCEPT !.lfo = lfo_SetFreq(v.lfo, FMul(v.lfo_base_freq, multiplier))])

\* set_lfo_base_freq, had it armed a new transit
set_lfo_base_freq_rearm(v, freq) ==
    [v EXCEPT !.lfo_base_freq = freq, !.state = "PENDING_TRANSIT_TO_TARGET"]

set_lfo_base_freq(v, freq) == [v EXCEPT !.lfo_base_freq = freq]

is_at_target(v) == v.state = "AT_TARGET"

set_state(v, s) == [v EXCEPT !.state = s]

init_lfo(v, sample_rate, base_freq) ==
    IF FLe(sample_rate, F(0)) THEN Throw(v)
    ELSE IF FLt(base_freq, F(0)) THEN Throw(v)
    ELSE Ok([v EXCEPT !.lfo_base_freq = base_freq,
                      !.lfo = lfo_SetFreq(lfo_SetAmp(lfo_Init(v.lfo, sample_rate), LFO_AMPLITUDE),
                                          base_freq)])

\* the raw progress of this sample, and the voice with its clock advanced
process_lfo(v) ==
    [v |-> [v EXCEPT !.lfo = lfo_Advance(v.lfo)], value |-> FAdd(lfo_Out(v.lfo), LFO_AMPLITUDE)]

\* reset_lfo, had it left the phase of the clock where it was
reset_lfo_keep_phase(v) == v

reset_lfo(v) == [v EXCEPT !.lfo = lfo_Reset(v.lfo)]

\* init_oscillators, had it rejected a count of MAX_OSCILLATORS
init_oscillators_off_by_one(v, count, sample_rate, start_frequency) ==
    IF count = 0 THEN Throw(v)
    ELSE IF count >= MAX_OSCILLATORS THEN Throw(v)
    ELSE IF FLe(sample_rate, F(0)) THEN Throw(v)
    ELSE IF FLt(start_frequency, F(0)) THEN Throw(v)
    ELSE Ok([v EXCEPT !.oscillator_count = count,
                      !.oscillators = [i \in 1..MAX_OSCILLATORS |->
                          IF i <= count THEN [freq |-> start_frequency, detune_amount |-> F(0)]
                          ELSE v.oscillators[i]]])

init_oscillators(v, count, sample_rate, start_frequency) ==
    IF count = 0 THEN Throw(v)
    ELSE IF count > MAX_OSCILLATORS THEN Throw(v)
    ELSE IF FLe(sample_rate, F(0)) THEN Throw(v)
    ELSE IF FLt(start_frequency, F(0)) THEN Throw(v)
    ELSE Ok([v EXCEPT !.oscillator_count = count,
                      !.oscillators = [i \in 1..MAX_OSCILLATORS |->
                          IF i <= count THEN [freq |-> start_frequency, detune_amount |-> F(0)]
                          ELSE v.oscillators[i]]])

\* the width of the unsigned type the index is computed in. size_t has 64
\* bits; the narrowing to int8_t reads the low 8 bits, which are the same at
\* every width of 8 bits or more
SizeBits == 24

\* unsigned arithmetic: a result is taken modulo 2^SizeBits
SizeWrap(x) == x % (2 ^ SizeBits)

\* the narrowing, had it been to uint8_t
Uint8(x) == x % 256

\* the narrowing of an unsigned value to int8_t
Int8(x) == LET m == x % 256 IN IF m >= 128 THEN m - 256 ELSE m

\* the index on the detune ladder, had it not stepped over 0
detune_idx_no_skip(i, half) == Int8(i - half)

\* the index of oscillator i (counted from 0) on the detune ladder: computed
\* in unsigned arithmetic, which wraps for i < half, and narrowed to int8_t
detune_idx(i, half) == Int8(SizeWrap(SizeWrap(i - half) + (IF i >= half THEN 1 ELSE 0)))

detune_oscillators(v, detune) ==
    LET half == v.oscillator_count \div 2
    IN  [v EXCEPT !.oscillators = [i \in 1..MAX_OSCILLATORS |->
            IF i > v.oscillator_count THEN v.oscillators[i]
            ELSE IF v.oscillator_count <= 1
                 THEN [v.oscillators[i] EXCEPT !.detune_amount = F(0)]
                 ELSE [v.oscillators[i] EXCEPT
                          !.detune_amount = FMul(F(detune_idx(i - 1, half)), detune)]]]

\* process_oscillators, had it stored the frequency of the first oscillator
\* as the current frequency of the voice
process_oscillators_feedback(v) ==
    [v EXCEPT !.current_frequency = FAdd(v.current_frequency, v.oscillators[1].detune_amount),
              !.oscillators = [i \in 1..MAX_OSCILLATORS |->
                  IF i > v.oscillator_count THEN v.oscillators[i]
                  ELSE [v.oscillators[i] EXCEPT
                           !.freq = FAdd(v.current_frequency, v.oscillators[i].detune_amount)]]]

\* process_oscillators, had it handed each oscillator the magnitude of its
\* frequency
process_oscillators_magnitude(v) ==
    [v EXCEPT !.oscillators = [i \in 1..MAX_OSCILLATORS |->
        IF i > v.oscillator_count THEN v.oscillators[i]
        ELSE [v.oscillators[i] EXCEPT
                 !.freq = FAbs(FAdd(v.current_frequency, v.oscillators[i].detune_amount))]]]

\* every active oscillator is retuned to the current frequency plus its detune
\* and asked for one sample
process_oscillators(v) ==
    [v EXCEPT !.oscillators = [i \in 1..MAX_OSCILLATORS |->
        IF i > v.oscillator_count THEN v.oscillators[i]
        ELSE [v.oscillators[i] EXCEPT
                 !.freq = FAdd(v.current_frequency, v.oscillators[i].detune_amount)]]]

\* the value process_oscillators returns, had it been the average of the samples
osc_value_average(v) ==
    [i \in 1..MAX_OSCILLATORS |->
        IF i > v.oscillator_count THEN F(0) ELSE FDiv(F(1), F(v.oscillator_count))]

\* the value process_oscillators returns: osc_value starts at 0 and each
\* active oscillator's sample is added to it. The samples themselves are not
\* computed: osc_value(v)[i] is the weight the sample of oscillator i has in
\* the value, 0 for an oscillator that was not asked for one
osc_value(v) ==
    [i \in 1..MAX_OSCILLATORS |->
        IF i > v.oscillator_count THEN F(0) ELSE FAdd(F(0), F(1))]

\* init_voice, had it left the target of the voice where it was
init_voice_keep_target(v, oscillator_count, start_frequency, sample_rate, lfo_frequency, detune) ==
    LET r1 == set_start_frequency(v, start_frequency)
        v2 == set_current_frequency(r1.v, start_frequency)
        v4 == set_state(v2, "PENDING_TRANSIT_TO_TARGET")
        r5 == init_lfo(v4, sample_rate, lfo_frequency)
        r6 == init_oscillators(r5.v, oscillator_count, sample_rate, start_frequency)
    IN  IF r1.thrown THEN r1
        ELSE IF r5.thrown THEN r5
        ELSE IF r6.thrown THEN r6
        ELSE Ok(detune_oscillators(r6.v, detune))

\* init_voice, had it written nothing to the voice when a later step throws
init_voice_all_or_nothing(v, oscillator_count, start_frequency, sample_rate, lfo_frequency, detune) ==
    LET r1 == set_start_frequency(v, start_frequency)
        v2 == set_current_frequency(r1.v, start_frequency)
        r3 == set_target_frequency(v2, start_frequency)
        v4 == set_state(r3.v, "PENDING_TRANSIT_TO_TARGET")
        r5 == init_lfo(v4, sample_rate, lfo_frequency)
        r6 == init_oscillators(r5.v, oscillator_count, sample_rate, start_frequency)
    IN  IF r1.thrown \/ r3.thrown \/ r5.thrown \/ r6.thrown THEN Throw(v)
        ELSE Ok(detune_oscillators(r6.v, detune))

init_voice(v, oscillator_count, start_frequency, sample_rate, lfo_frequency, detune) ==
    LET r1 == set_start_frequency(v, start_frequency)
        v2 == set_current_frequency(r1.v, start_frequency)
        r3 == set_target_frequency(v2, start_frequency)
        v4 == set_state(r3.v, "PENDING_TRANSIT_TO_TARGET")
        r5 == init_lfo(v4, sample_rate, lfo_frequency)
        r6 == init_oscillators(r5.v, oscillator_count, sample_rate, start_frequency)
    IN  IF r1.thrown THEN r1
        ELSE IF r3.thrown THEN r3
        ELSE IF r5.thrown THEN r5
        ELSE IF r6.thrown THEN r6
        ELSE Ok(detune_oscillators(r6.v, detune))

\* [v, thrown, raw, shaped, freq]: the voice with its clock advanced, the raw
\* and the shaped progress and the frequency they scale to
calculate_shaped_frequency(v, lfo_multiplier, cp1, cp2) ==
    LET r1  == scale_lfo_base_freq(v, lfo_multiplier)
        r2  == process_lfo(r1.v)
        raw == r2.value
        shaped0 == shape(BezierUnitShaper(cp1, cp2), raw)
        shaped  == IF FGt(v.start_frequency, v.target_frequency)
                   THEN FSub(F(1), shaped0) ELSE shaped0
        animationScaler == Scaler(Range(F(0), F(1)),
                                  Range(v.start_frequency, v.target_frequency))
    IN  IF r1.thrown
        THEN [v |-> r1.v, thrown |-> TRUE, raw |-> F(0), shaped |-> F(0), freq |-> F(0)]
        ELSE [v |-> r2.v, thrown |-> FALSE, raw |-> raw, shaped |-> shaped,
              freq |-> scale(animationScaler, shaped)]

\* update_voice_state, had it restarted a transit that left the range
update_voice_state_restart(v, current_state, current_frequency) ==
    LET freq_low  == StdMin(v.start_frequency, v.target_frequency)
        freq_high == StdMax(v.start_frequency, v.target_frequency)
        validFrequencyRange == Range(freq_low, freq_high)
        targetRange == Range(FSub(v.target_frequency, F(TARGET_FREQUENCY_TOLERANCE)),
                             FAdd(v.target_frequency, F(TARGET_FREQUENCY_TOLERANCE)))
    IN  IF contains(validFrequencyRange, current_frequency)
        THEN IF current_state = "IN_TRANSIT_TO_TARGET"
                /\ contains(targetRange, current_frequency)
             THEN "AT_TARGET"
             ELSE current_state
        ELSE "PENDING_TRANSIT_TO_TARGET"

\* update_voice_state, had it tested for the pending state
update_voice_state_pending(v, current_state, current_frequency) ==
    LET freq_low  == StdMin(v.start_frequency, v.target_frequency)
        freq_high == StdMax(v.start_frequency, v.target_frequency)
        validFrequencyRange == Range(freq_low, freq_high)
        targetRange == Range(FSub(v.target_frequency, F(TARGET_FREQUENCY_TOLERANCE)),
                             FAdd(v.target_frequency, F(TARGET_FREQUENCY_TOLERANCE)))
    IN  IF contains(validFrequencyRange, current_frequency)
        THEN IF current_state = "PENDING_TRANSIT_TO_TARGET"
                /\ contains(targetRange, current_frequency)
             THEN "AT_TARGET"
             ELSE current_state
        ELSE IF current_state = "PENDING_TRANSIT_TO_TARGET" THEN "AT_TARGET" ELSE current_state

\* update_voice_state, had it left out the test against the target range
update_voice_state_no_tolerance(v, current_state, current_frequency) ==
    LET freq_low  == StdMin(v.start_frequency, v.target_frequency)
        freq_high == StdMax(v.start_frequency, v.target_frequency)
        validFrequencyRange == Range(freq_low, freq_high)
    IN  IF contains(validFrequencyRange, current_frequency)
        THEN current_state
        ELSE IF current_state = "IN_TRANSIT_TO_TARGET" THEN "AT_TARGET" ELSE current_state

\* update_voice_state, had it kept the state of a frequency outside the range
update_voice_state_no_snap(v, current_state, current_frequency) ==
    LET freq_low  == StdMin(v.start_frequency, v.target_frequency)
        freq_high == StdMax(v.start_frequency, v.target_frequency)
        validFrequencyRange == Range(freq_low, freq_high)
        targetRange == Range(FSub(v.target_frequency, F(TARGET_FREQUENCY_TOLERANCE)),
                             FAdd(v.target_frequency, F(TARGET_FREQUENCY_TOLERANCE)))
    IN  IF contains(validFrequencyRange, current_frequency)
        THEN IF current_state = "IN_TRANSIT_TO_TARGET"
                /\ contains(targetRange, current_frequency)
             THEN "AT_TARGET"
             ELSE current_state
        ELSE current_state

update_voice_state(v, current_state, current_frequency) ==
    LET freq_low  == StdMin(v.start_frequency, v.target_frequency)
        freq_high == StdMax(v.start_frequency, v.target_frequency)
        validFrequencyRange == Range(freq_low, freq_high)
        targetRange == Range(FSub(v.target_frequency, F(TARGET_FREQUENCY_TOLERANCE)),
                             FAdd(v.target_frequency, F(TARGET_FREQUENCY_TOLERANCE)))
    IN  IF contains(validFrequencyRange, current_frequency)
        THEN IF current_state = "IN_TRANSIT_TO_TARGET"
                /\ contains(targetRange, current_frequency)
             THEN "AT_TARGET"
             ELSE current_state
        ELSE IF current_state = "IN_TRANSIT_TO_TARGET" THEN "AT_TARGET" ELSE current_state

\* constrain_frequency, had it clamped to the low end from the wrong side
constrain_frequency_reversed(v, frequency) ==
    LET freq_low  == StdMin(v.start_frequency, v.target_frequency)
    IN  IF FGt(frequency, freq_low) THEN freq_low ELSE frequency

constrain_frequency(v, frequency) ==
    LET freq_low  == StdMin(v.start_frequency, v.target_frequency)
        freq_high == StdMax(v.start_frequency, v.target_frequency)
    IN  constrain(Range(freq_low, freq_high), frequency)

\* process_voice, had it left a pending voice pending
next_state_pending(in_state) == in_state

\* the state process_voice moves a pending voice to before it computes
next_state(in_state) ==
    IF in_state = "PENDING_TRANSIT_TO_TARGET" THEN "IN_TRANSIT_TO_TARGET" ELSE in_state

\* process_voice, had it never held the voice at its target
holds_at_target_never(state) == FALSE

\* process_voice, had it set the start frequency on reaching the target
reached_start_frequency(v) == v.start_frequency

\* process_voice holds the voice at its target
holds_at_target(state) == state = "AT_TARGET"

\* the frequency process_voice sets when the transit has reached its target
reached_target_frequency(v) == v.target_frequency

\* [v, thrown, raw, shaped, trace]: the voice after the call, the raw progress
\* the call read from the clock, the shaped progress it computed from that,
\* and what the call hands to its trace functor: for the raw and the shaped
\* LFO value the functor is handed the constant 0.0f
process_voice(v, lfo_multiplier, cp1, cp2) ==
    LET in_state == v.state
        v1     == IF in_state = "PENDING_TRANSIT_TO_TARGET" THEN reset_lfo(v) ELSE v
        state1 == next_state(in_state)
        at     == holds_at_target(state1)
        c      == calculate_shaped_frequency(v1, lfo_multiplier, cp1, cp2)
        state2 == update_voice_state(c.v, state1, c.freq)
        constrained == constrain_frequency(c.v, c.freq)
        state  == IF at THEN state1 ELSE state2
        current_frequency ==
            IF at THEN v.target_frequency
            ELSE IF state2 = "AT_TARGET" THEN reached_target_frequency(v)
            ELSE constrained
        v2     == IF at THEN v1 ELSE c.v
        v3     == process_oscillators(set_state(set_current_frequency(v2, current_frequency),
                                                state))
    IN  IF ~at /\ c.thrown
        THEN [v |-> c.v, thrown |-> TRUE, raw |-> F(0), shaped |-> F(0),
              trace |-> [called |-> FALSE, in_state |-> in_state, state |-> in_state,
                         start_frequency |-> F(0), target_frequency |-> F(0),
                         raw_lfo_value |-> F(0), shaped_lfo_value |-> F(0),
                         unconstrained_freq |-> F(0), current_frequency |-> F(0),
                         osc_value |-> [i \in 1..MAX_OSCILLATORS |-> F(0)]]]
        ELSE [v |-> v3, thrown |-> FALSE, raw |-> IF at THEN F(0) ELSE c.raw,
              shaped |-> IF at THEN F(0) ELSE c.shaped,
              trace |-> [called |-> TRUE, in_state |-> in_state, state |-> state,
                         start_frequency |-> v.start_frequency,
                         target_frequency |-> v.target_frequency,
                         raw_lfo_value |-> F(0), shaped_lfo_value |-> F(0),
                         unconstrained_freq |-> IF at THEN F(0) ELSE c.freq,
                         current_frequency |-> current_frequency,
                         osc_value |-> osc_value(v)]]

-----------------------------------------------------------------------------
(* process_voice as float arithmetic computes it: every operation on the   *)
(* clock, in the shaper and in the scaler rounds its result; comparisons,  *)
(* the clamp and the assignments do not                                    *)

fl_lfo_SetFreq(lfo, f) == [lfo EXCEPT !.phase_inc = fl_mul(f, lfo.sr_recip)]

fl_lfo_Out(lfo) == fl_mul(fl_sub(fl_mul(lfo.phase, F(2)), F(1)), lfo.amp)

fl_lfo_Advance(lfo) ==
    LET p == fl_add(lfo.phase, lfo.phase_inc)
    IN  [lfo EXCEPT !.phase = IF FGt(p, F(1)) THEN fl_sub(p, F(1)) ELSE p]

fl_scale_lfo_base_freq(v, multiplier) ==
    IF FLt(multiplier, F(0)) THEN Throw(v)
    ELSE Ok([v EXCEPT !.lfo = fl_lfo_SetFreq(v.lfo, fl_mul(v.lfo_base_freq, multiplier))])

fl_process_lfo(v) ==
    [v |-> [v EXCEPT !.lfo = fl_lfo_Advance(v.lfo)],
     value |-> fl_add(fl_lfo_Out(v.lfo), LFO_AMPLITUDE)]

fl_update_voice_state(v, current_state, current_frequency) ==
    LET freq_low  == StdMin(v.start_frequency, v.target_frequency)
        freq_high == StdMax(v.start_frequency, v.target_frequency)
        validFrequencyRange == Range(freq_low, freq_high)
        targetRange == Range(fl_sub(v.target_frequency, F(TARGET_FREQUENCY_TOLERANCE)),
                             fl_add(v.target_frequency, F(TARGET_FREQUENCY_TOLERANCE)))
    IN  IF contains(validFrequencyRange, current_frequency)
        THEN IF current_state = "IN_TRANSIT_TO_TARGET"
                /\ contains(targetRange, current_frequency)
             THEN "AT_TARGET"
             ELSE current_state
        ELSE IF current_state = "IN_TRANSIT_TO_TARGET" THEN "AT_TARGET" ELSE current_state

\* r2, the clock read and advanced, is computed once
fl_calculate_shaped_frequency(v, lfo_multiplier, cp1, cp2) ==
    LET r1 == fl_scale_lfo_base_freq(v, lfo_multiplier)
    IN  IF r1.thrown
        THEN [v |-> r1.v, thrown |-> TRUE, raw |-> F(0), shaped |-> F(0), freq |-> F(0)]
        ELSE CHOOSE result \in
                 {LET raw == r2.value
                      shaped0 == fl_shape(BezierUnitShaper(cp1, cp2), raw)
                      shaped  == IF FGt(v.start_frequency, v.target_frequency)
                                 THEN fl_sub(F(1), shaped0) ELSE shaped0
                      animationScaler == Scaler(Range(F(0), F(1)),
                                                Range(v.start_frequency, v.target_frequency))
                  IN  [v |-> r2.v, thrown |-> FALSE, raw |-> raw, shaped |-> shaped,
                       freq |-> fl_scale(animationScaler, shaped)]
                  : r2 \in {fl_process_lfo(r1.v)}} : TRUE

\* [v, thrown, freq]: the voice after the call and the frequency the call
\* computed before it clamped it; c, what calculate_shaped_frequency
\* returns, is computed once
fl_process_voice(v, lfo_multiplier, cp1, cp2) ==
    LET in_state == v.state
        v1     == IF in_state = "PENDING_TRANSIT_TO_TARGET" THEN reset_lfo(v) ELSE v
        state1 == next_state(in_state)
        at     == holds_at_target(state1)
    IN  CHOOSE result \in
            {LET state2 == fl_update_voice_state(c.v, state1, c.freq)
                 constrained == constrain_frequency(c.v, c.freq)
                 state  == IF at THEN state1 ELSE state2
                 current_frequency ==
                     IF at THEN v.target_frequency
                     ELSE IF state2 = "AT_TARGET" THEN reached_target_frequency(v)
                     ELSE constrained
                 v2     == IF at THEN v1 ELSE c.v
             IN  IF ~at /\ c.thrown
                 THEN [v |-> c.v, thrown |-> TRUE, freq |-> F(0)]
                 ELSE [v |-> set_state(set_current_frequency(v2, current_frequency), state),
                       thrown |-> FALSE, freq |-> IF at THEN F(0) ELSE c.freq]
             : c \in {fl_calculate_shaped_frequency(v1, lfo_multiplier, cp1, cp2)}} : TRUE

-----------------------------------------------------------------------------
(* the values the callers pass                                             *)

MaxSetterCalls == 2

CallCap == 6

FrequencyArgs == {F(-1), F(1), F(16)}

LfoFrequencyArgs == {F(0)}

DetuneArgs == {F(0), Norm(5, 2)}

\* init_voice(oscillator_count, start_frequency, sample_rate, lfo_frequency, detune):
\* two valid calls, and one call for each argument init_voice rejects
InitArgs ==
    {<<2, F(0), F(4), F(1), DEFAULT_DETUNE_HZ>>, <<1, F(16), F(4), F(1), F(0)>>,
     <<0, F(0), F(4), F(1), DEFAULT_DETUNE_HZ>>, <<17, F(0), F(4), F(1), DEFAULT_DETUNE_HZ>>,
     <<2, F(-1), F(4), F(1), DEFAULT_DETUNE_HZ>>, <<2, F(1), F(0), F(1), DEFAULT_DETUNE_HZ>>,
     <<2, F(1), F(4), F(-1), DEFAULT_DETUNE_HZ>>}

Knob(m, y2, y3) == [lfo_multiplier |-> m, cp |-> <<y2, y3>>]

\* process_voice(lfo_multiplier, cp1, cp2): a negative, a zero and two positive
\* multipliers; a monotone curve, a curve that turns back inside [0, 1], a
\* curve that leaves [0, 1], and non-finite control points
Knobs ==
    {Knob(F(-1), F(0), F(1)), Knob(F(0), F(0), F(1)), Knob(F(1), F(0), F(1)),
     Knob(F(1), F(2), F(-1)), Knob(F(1), F(-1), F(2)), Knob(F(1), NaN, Norm(1, 2)),
     Knob(F(1), Norm(1, 2), PosInf), Knob(F(3), F(0), F(1)), Knob(F(3), F(2), F(-1))}

-----------------------------------------------------------------------------
(* the state: the voice, the last call on it and what that call traced     *)

VARIABLES voice, inited, call, trace, raw, shaped, knobs, setter_calls, calls, tick, calc, superseded

vars == <<voice, inited, call, trace, raw, shaped, knobs, setter_calls, calls, tick, calc, superseded>>

NoTrace ==
    [called |-> FALSE, in_state |-> "PENDING_TRANSIT_TO_TARGET",
     state |-> "PENDING_TRANSIT_TO_TARGET",
     start_frequency |-> F(0), target_frequency |-> F(0),
     raw_lfo_value |-> F(0), shaped_lfo_value |-> F(0), unconstrained_freq |-> F(0),
     current_frequency |-> F(0), osc_value |-> [i \in 1..MAX_OSCILLATORS |-> F(0)]]

Call(op, thrown, arg) == [op |-> op, thrown |-> thrown, arg |-> arg]

\* superseded holds the targets that successful set_target_frequency calls
\* have replaced one after the other with no other call in between, the
\* targets no process_voice call has seen; the next setter call clears it.
\* calc holds the last use of a value type on its own: what was called,
\* with which arguments, and what came out
NoCalc == [op |-> "none", args |-> <<>>, done |-> FALSE, out |-> <<>>]

Init ==
    /\ voice = NewVoice
    /\ inited = FALSE
    /\ call = Call("DeepnoteVoice", FALSE, F(0))
    /\ trace = NoTrace
    /\ raw = F(0)
    /\ shaped = F(0)
    /\ knobs = Knob(F(1), F(0), F(1))
    /\ setter_calls = 0
    /\ calls = 0
    /\ tick = FALSE
    /\ calc = NoCalc
    /\ superseded = {}

\* init_voice may be called again on a voice in use; from then on it counts
\* as one of the MaxSetterCalls calls between the samples
InitVoice(a) ==
    /\ ~inited \/ setter_calls < MaxSetterCalls
    /\ \E r \in {init_voice(voice, a[1], a[2], a[3], a[4], a[5])} :
           /\ voice' = r.v
           /\ inited' = (inited \/ ~r.thrown)
           /\ call' = Call("init_voice", r.thrown, a[2])
    /\ trace' = NoTrace
    /\ raw' = F(0)
    /\ shaped' = F(0)
    /\ setter_calls' = IF inited THEN setter_calls + 1 ELSE setter_calls
    /\ calls' = 0
    /\ superseded' = {}
    /\ UNCHANGED <<knobs, tick, calc>>

SetTargetFrequency(freq) ==
    /\ inited
    /\ setter_calls < MaxSetterCalls
    /\ \E r \in {set_target_frequency(voice, freq)} :
           /\ voice' = r.v
           /\ call' = Call("set_target_frequency", r.thrown, freq)
           /\ calls' = IF r.thrown THEN calls ELSE 0
           /\ superseded' = IF r.thrown THEN {}
                            ELSE IF call.op = "set_target_frequency" /\ ~call.thrown
                                 THEN superseded \cup {voice.target_frequency}
                                 ELSE {}
    /\ trace' = NoTrace
    /\ raw' = F(0)
    /\ shaped' = F(0)
    /\ setter_calls' = setter_calls + 1
    /\ UNCHANGED <<inited, knobs, tick, calc>>

SetStartFrequency(freq) ==
    /\ inited
    /\ setter_calls < MaxSetterCalls
    /\ \E r \in {set_start_frequency(voice, freq)} :
           /\ voice' = r.v
           /\ call' = Call("set_start_frequency", r.thrown, freq)
           /\ calls' = IF r.thrown THEN calls ELSE 0
           /\ superseded' = {}
    /\ trace' = NoTrace
    /\ raw' = F(0)
    /\ shaped' = F(0)
    /\ setter_calls' = setter_calls + 1
    /\ UNCHANGED <<inited, knobs, tick, calc>>

DetuneOscillators(detune) ==
    /\ inited
    /\ setter_calls < MaxSetterCalls
    /\ voice' = detune_oscillators(voice, detune)
    /\ call' = Call("detune_oscillators", FALSE, detune)
    /\ trace' = NoTrace
    /\ raw' = F(0)
    /\ shaped' = F(0)
    /\ setter_calls' = setter_calls + 1
    /\ superseded' = {}
    /\ UNCHANGED <<inited, knobs, calls, tick, calc>>

SetLfoBaseFreq(freq) ==
    /\ inited
    /\ setter_calls < MaxSetterCalls
    /\ voice' = set_lfo_base_freq(voice, freq)
    /\ call' = Call("set_lfo_base_freq", FALSE, freq)
    /\ trace' = NoTrace
    /\ raw' = F(0)
    /\ shaped' = F(0)
    /\ setter_calls' = setter_calls + 1
    /\ superseded' = {}
    /\ UNCHANGED <<inited, knobs, calls, tick, calc>>

ProcessVoice(k) ==
    /\ inited
    /\ \E r \in {process_voice(voice, k.lfo_multiplier, k.cp[1], k.cp[2])} :
           /\ voice' = r.v
           /\ call' = Call("process_voice", r.thrown, F(0))
           /\ trace' = r.trace
           /\ raw' = r.raw
           /\ shaped' = r.shaped
    /\ UNCHANGED <<inited, knobs, setter_calls, calc, superseded>>

Next ==
    \/ \E a \in InitArgs : InitVoice(a)
    \/ \E freq \in FrequencyArgs : SetTargetFrequency(freq)
    \/ \E freq \in FrequencyArgs : SetStartFrequency(freq)
    \/ \E detune \in DetuneArgs : DetuneOscillators(detune)
    \/ \E freq \in LfoFrequencyArgs : SetLfoBaseFreq(freq)
    \/ \E k \in Knobs : ProcessVoice(k) /\ UNCHANGED <<calls, tick>>

Spec == Init /\ [][Next]_vars

-----------------------------------------------------------------------------
(* the audio callback: process_voice is called for every sample, for ever, *)
(* with knobs that stay where they are; calls counts the samples since the *)
(* last retargeting and tick flips with every sample, so that a sample     *)
(* that leaves the voice as it was is a step all the same                  *)

SteadyInit ==
    /\ voice = NewVoice
    /\ inited = FALSE
    /\ call = Call("DeepnoteVoice", FALSE, F(0))
    /\ trace = NoTrace
    /\ raw = F(0)
    /\ shaped = F(0)
    /\ knobs \in Knobs
    /\ setter_calls = 0
    /\ calls = 0
    /\ tick = FALSE
    /\ calc = NoCalc
    /\ superseded = {}

AudioCallback ==
    /\ ProcessVoice(knobs)
    /\ calls' = IF call'.thrown \/ calls = CallCap THEN calls ELSE calls + 1
    /\ tick' = ~tick

\* the next sample is due: the steps that flip tick are the AudioCallback
\* steps, and one is possible whenever the voice is set up
Sample == inited /\ tick' = ~tick

SteadyNext ==
    \/ \E a \in InitArgs : InitVoice(a)
    \/ \E freq \in FrequencyArgs : SetTargetFrequency(freq)
    \/ \E freq \in FrequencyArgs : SetStartFrequency(freq)
    \/ \E detune \in DetuneArgs : DetuneOscillators(detune)
    \/ \E freq \in LfoFrequencyArgs : SetLfoBaseFreq(freq)
    \/ AudioCallback

SteadySpec == SteadyInit /\ [][SteadyNext]_vars /\ WF_tick(Sample)

-----------------------------------------------------------------------------
(* the configuration of a voice: init_voice with every oscillator count    *)
(* from none to one too many, on a new voice and on a voice in use, and    *)
(* detune_oscillators in between                                           *)

ConfigInitArgs ==
    {<<n, F(1), F(4), F(1), DEFAULT_DETUNE_HZ>> : n \in 0..(MAX_OSCILLATORS + 1)}
        \cup {<<3, F(-1), F(4), F(1), DEFAULT_DETUNE_HZ>>,
              <<3, F(1), F(0), F(1), DEFAULT_DETUNE_HZ>>,
              <<3, F(1), F(-4), F(1), DEFAULT_DETUNE_HZ>>,
              <<3, F(1), F(4), F(-1), DEFAULT_DETUNE_HZ>>,
              <<3, F(0), F(4), F(0), F(0)>>}

ConfigDetuneArgs == {F(0), DEFAULT_DETUNE_HZ, F(-3)}

ConfigNext ==
    \/ \E a \in ConfigInitArgs : InitVoice(a)
    \/ \E detune \in ConfigDetuneArgs : DetuneOscillators(detune)

ConfigSpec == Init /\ [][ConfigNext]_vars

-----------------------------------------------------------------------------
(* the value types on their own, in rounded arithmetic: a Range is built   *)
(* and asked, a Scaler is built and applied forth and back, a              *)
(* BezierUnitShaper is built and applied                                   *)

\* the ends of the ranges and the values handed to them: floats of
\* SignificandBits bits, of both signs, with equal and with reversed ends
RangeArgs == {F(-15), F(-3), F(0), F(1), F(3), F(10)}

ValueArgs == RangeArgs \cup {F(-30), Norm(1, 2), F(5), F(24)}

\* the values a Range is asked about: also the non-finite ones, which
\* process_voice hands to contains and constrain when a control point is
\* not finite
ConstrainArgs == ValueArgs \cup {NaN, PosInf, NegInf}

\* control points inside and outside [0, 1], large ones, and the non-finite
ControlPointArgs ==
    {F(0), F(1), Norm(1, 2), Norm(-1, 2), Norm(3, 2), F(-1), F(2), F(-480), F(7680),
     NaN, PosInf, NegInf}

ShapeArgs == {F(0), Norm(1, 4), Norm(1, 2), F(1), F(2)}

\* the calls to make: what is called and with which arguments
RangeCalls ==
    {[op |-> "Range", args |-> [a |-> a, b |-> b, value |-> value], done |-> FALSE, out |-> <<>>] :
        a \in RangeArgs, b \in RangeArgs, value \in ConstrainArgs}

ScalerCalls ==
    {[op |-> "Scaler", args |-> [a |-> a, b |-> b, c |-> c, d |-> d, value |-> value],
      done |-> FALSE, out |-> <<>>] :
        a \in RangeArgs, b \in RangeArgs, c \in RangeArgs, d \in RangeArgs, value \in ValueArgs}

BezierCalls ==
    {[op |-> "BezierUnitShaper", args |-> [y2 |-> y2, y3 |-> y3, t |-> t],
      done |-> FALSE, out |-> <<>>] :
        y2 \in ControlPointArgs, y3 \in ControlPointArgs, t \in ShapeArgs}

\* the frequencies a transition starts from and goes to, the phases a
\* transition before it can have left the clock at, and the knobs of the call
StartArgs ==
    {F(0), Norm(3, 32), Norm(1, 2), Norm(13, 8), F(1), F(3), F(10), F(16), F(18), F(22), F(24)}

PhaseArgs == {F(0), Norm(1, 4), Norm(3, 4), F(1)}

FirstCallKnobs ==
    {Knob(F(-1), F(0), F(1)), Knob(F(0), F(0), F(1)), Knob(F(1), F(0), F(1)),
     Knob(F(1), F(2), F(-1)), Knob(F(3), Norm(1, 2), Norm(1, 2)),
     Knob(F(1), NaN, Norm(1, 2)), Knob(F(1), Norm(1, 2), PosInf)}

FirstCalls ==
    {[op |-> "process_voice", args |-> [start |-> a, target |-> b, phase |-> p, k |-> k],
      done |-> FALSE, out |-> <<>>] :
        a \in StartArgs, b \in StartArgs, p \in PhaseArgs, k \in FirstCallKnobs}

\* a voice of one oscillator at the frequency start, its clock at sample
\* rate 4 and base rate 1 left at phase, after set_target_frequency(target)
RetargetedVoice(start, target, phase) ==
    LET v0 == init_voice(NewVoice, 1, start, F(4), F(1), F(0)).v
    IN  set_target_frequency([v0 EXCEPT !.lfo.phase = phase], target).v

ValueInit ==
    /\ voice = NewVoice
    /\ inited = FALSE
    /\ call = Call("DeepnoteVoice", FALSE, F(0))
    /\ trace = NoTrace
    /\ raw = F(0)
    /\ shaped = F(0)
    /\ knobs = Knob(F(1), F(0), F(1))
    /\ setter_calls = 0
    /\ calls = 0
    /\ tick = FALSE
    /\ superseded = {}
    /\ calc \in RangeCalls \cup ScalerCalls \cup BezierCalls \cup FirstCalls

\* Range(a, b), its length, the length of Range(b, a), and contains and
\* constrain of a value, contains and constrain also of what constrain returned
RangeCall ==
    /\ calc.op = "Range" /\ ~calc.done
    /\ \E r \in {Range(calc.args.a, calc.args.b)} :
           calc' = [calc EXCEPT
                       !.done = TRUE,
                       !.out  = [r         |-> r,
                                 length    |-> fl_length(r),
                                 reversed  |-> fl_length(Range(calc.args.b, calc.args.a)),
                                 contains  |-> contains(r, calc.args.value),
                                 constrain |-> constrain(r, calc.args.value),
                                 inside    |-> contains(r, constrain(r, calc.args.value)),
                                 twice     |-> constrain(r, constrain(r, calc.args.value))]]
    /\ UNCHANGED <<voice, inited, call, trace, raw, shaped, knobs, setter_calls, calls, tick,
                   superseded>>

\* Scaler(A, B) with A = Range(a, b) and B = Range(c, d), applied to a value
\* and to the ends of A, and Scaler(B, A) applied to what Scaler(A, B)
\* returned, in rounded and in exact arithmetic
ScalerCall ==
    /\ calc.op = "Scaler" /\ ~calc.done
    /\ \E A \in {Range(calc.args.a, calc.args.b)} : \E B \in {Range(calc.args.c, calc.args.d)} :
       \E scaled \in {fl_scale(Scaler(A, B), calc.args.value)} :
           calc' = [calc EXCEPT
                       !.done = TRUE,
                       !.out  = [input   |-> A,
                                 output  |-> B,
                                 scaled  |-> scaled,
                                 at_low  |-> fl_scale(Scaler(A, B), A.low),
                                 at_high |-> fl_scale(Scaler(A, B), A.high),
                                 back    |-> fl_scale(Scaler(B, A), scaled),
                                 exact   |-> scale(Scaler(B, A),
                                                   scale(Scaler(A, B), calc.args.value))]]
    /\ UNCHANGED <<voice, inited, call, trace, raw, shaped, knobs, setter_calls, calls, tick,
                   superseded>>

BezierCall ==
    /\ calc.op = "BezierUnitShaper" /\ ~calc.done
    /\ calc' = [calc EXCEPT
                   !.done = TRUE,
                   !.out  = [shaped |-> fl_shape(BezierUnitShaper(calc.args.y2, calc.args.y3),
                                                 calc.args.t)]]
    /\ UNCHANGED <<voice, inited, call, trace, raw, shaped, knobs, setter_calls, calls, tick,
                   superseded>>

\* the first process_voice call of a transition, in exact and in rounded
\* arithmetic
FirstCall ==
    /\ calc.op = "process_voice" /\ ~calc.done
    /\ \E v \in {RetargetedVoice(calc.args.start, calc.args.target, calc.args.phase)} :
           calc' = [calc EXCEPT
                       !.done = TRUE,
                       !.out  = [before  |-> v,
                                 exact   |-> process_voice(v, calc.args.k.lfo_multiplier,
                                                           calc.args.k.cp[1], calc.args.k.cp[2]),
                                 rounded |-> fl_process_voice(v, calc.args.k.lfo_multiplier,
                                                              calc.args.k.cp[1], calc.args.k.cp[2])]]
    /\ UNCHANGED <<voice, inited, call, trace, raw, shaped, knobs, setter_calls, calls, tick,
                   superseded>>

ValueNext == RangeCall \/ ScalerCall \/ BezierCall \/ FirstCall

ValueSpec == ValueInit /\ [][ValueNext]_vars

-----------------------------------------------------------------------------
(* what the claims speak of                                                *)

freq_low == StdMin(voice.start_frequency, voice.target_frequency)

freq_high == StdMax(voice.start_frequency, voice.target_frequency)

InRange(f) == FLe(freq_low, f) /\ FLe(f, freq_high)

Processed == call.op = "process_voice" /\ ~call.thrown

Retargeted == call.op = "set_target_frequency" /\ ~call.thrown

AtTarget == voice.state = "AT_TARGET" /\ FEq(voice.current_frequency, voice.target_frequency)

\* the share of a cycle the progress clock advances per process_voice call
ClockInc == FMul(FMul(voice.lfo_base_freq, knobs.lfo_multiplier), voice.lfo.sr_recip)

RatePositive == FGt(voice.lfo_base_freq, F(0)) /\ FGt(knobs.lfo_multiplier, F(0))

FiniteControlPoints == IsFinite(knobs.cp[1]) /\ IsFinite(knobs.cp[2])

UnitControlPoints ==
    /\ FLe(F(0), knobs.cp[1]) /\ FLe(knobs.cp[1], F(1))
    /\ FLe(F(0), knobs.cp[2]) /\ FLe(knobs.cp[2], F(1))

Ceil(a, b) == (a + b - 1) \div b

-----------------------------------------------------------------------------
\* C1: an initialised voice with a positive lfo_base_freq, driven by
\* process_voice with a positive multiplier and finite control points,
\* reaches AT_TARGET unless a setter is called first
C1_Reachability ==
    \A n \in 0..MaxSetterCalls :
        (inited /\ setter_calls = n /\ RatePositive /\ FiniteControlPoints)
            ~> (voice.state = "AT_TARGET" \/ setter_calls # n)

\* a transit between two different frequencies has run over several calls
\* and ended AT_TARGET
C1_Witness ==
    /\ inited /\ RatePositive /\ FiniteControlPoints
    /\ ~FEq(voice.start_frequency, voice.target_frequency)
    /\ trace.called /\ trace.in_state = "IN_TRANSIT_TO_TARGET"
    /\ voice.state = "AT_TARGET"
    /\ calls >= 3

\* C2 (as amended): set_target_frequency(new) re-arms the voice at once
\* (PENDING, target = new), also in mid-flight; and, when the clock rate
\* lfo_base_freq x multiplier is positive, the process_voice calls that follow
\* bring the voice to AT_TARGET with current_frequency = the new target
C2_Retarget ==
    /\ [](Retargeted => /\ voice.state = "PENDING_TRANSIT_TO_TARGET"
                        /\ FEq(voice.target_frequency, call.arg))
    /\ \A n \in 0..MaxSetterCalls : \A f \in FrequencyArgs :
           (inited /\ Retargeted /\ call.arg = f /\ setter_calls = n /\ RatePositive)
               ~> ((AtTarget /\ FEq(voice.current_frequency, f)) \/ setter_calls # n)

\* the voice was retargeted in mid-flight (its start is a frequency only a
\* transit passes through) and has reached the new target
C2_Witness ==
    /\ inited /\ RatePositive
    /\ voice.start_frequency.d > 1
    /\ trace.called /\ trace.in_state = "IN_TRANSIT_TO_TARGET"
    /\ AtTarget

\* C2 (as stated): the same with no condition on the clock rate
C2_Original ==
    /\ [](Retargeted => /\ voice.state = "PENDING_TRANSIT_TO_TARGET"
                        /\ FEq(voice.target_frequency, call.arg))
    /\ \A n \in 0..MaxSetterCalls : \A f \in FrequencyArgs :
           (inited /\ Retargeted /\ call.arg = f /\ setter_calls = n)
               ~> ((AtTarget /\ FEq(voice.current_frequency, f)) \/ setter_calls # n)

\* C3: a process_voice call that computes a frequency f ends AT_TARGET with
\* current_frequency = target_frequency if f is within 1 Hz of the target or
\* outside [min(start, target), max(start, target)], and otherwise ends
\* IN_TRANSIT_TO_TARGET with current_frequency = f clamped into that range
C3_CompletionRule ==
    (trace.called /\ trace.in_state # "AT_TARGET") =>
        LET f == trace.unconstrained_freq
            near == /\ FLe(FSub(voice.target_frequency, F(1)), f)
                    /\ FLe(f, FAdd(voice.target_frequency, F(1)))
            clamped == IF FLt(f, freq_low) THEN freq_low
                       ELSE IF FGt(f, freq_high) THEN freq_high ELSE f
        IN  IF near \/ ~InRange(f)
            THEN /\ voice.state = "AT_TARGET"
                 /\ voice.current_frequency = voice.target_frequency
            ELSE /\ voice.state = "IN_TRANSIT_TO_TARGET"
                 /\ voice.current_frequency = clamped

\* a call has computed a frequency inside the range and off the target, and
\* the voice stays in transit on it
C3_Witness ==
    /\ trace.called /\ trace.in_state = "IN_TRANSIT_TO_TARGET"
    /\ voice.state = "IN_TRANSIT_TO_TARGET"
    /\ FLt(freq_low, trace.unconstrained_freq)
    /\ FLt(trace.unconstrained_freq, freq_high)
    /\ voice.current_frequency = trace.unconstrained_freq

\* C4: a process_voice call on a voice that is AT_TARGET, whatever the
\* multiplier and the control points, returns with the voice AT_TARGET, the
\* target untouched and current_frequency = target_frequency
C4_AtTargetHolds ==
    [][(voice.state = "AT_TARGET" /\ call'.op = "process_voice") =>
           /\ ~call'.thrown
           /\ voice'.state = "AT_TARGET"
           /\ voice'.target_frequency = voice.target_frequency
           /\ voice'.current_frequency = voice.target_frequency]_vars

\* the voice has been processed again after it reached a target away from
\* its start
C4_Witness ==
    /\ Processed /\ trace.called /\ trace.in_state = "AT_TARGET"
    /\ voice.state = "AT_TARGET"
    /\ ~FEq(voice.start_frequency, voice.target_frequency)

\* C5: set_target_frequency(f) with f >= 0, in any state, sets start_frequency
\* to the current frequency, target_frequency to f and the state to PENDING,
\* and leaves current_frequency alone; is_at_target() is false after it
C5_SetTarget ==
    [][(call'.op = "set_target_frequency" /\ FGe(call'.arg, F(0))) =>
           /\ ~call'.thrown
           /\ voice'.start_frequency = voice.current_frequency
           /\ voice'.target_frequency = call'.arg
           /\ voice'.current_frequency = voice.current_frequency
           /\ voice'.state = "PENDING_TRANSIT_TO_TARGET"
           /\ ~is_at_target(voice')]_vars

\* set_target_frequency has been called in mid-flight: the start it captured
\* is a frequency only a transit passes through
C5_Witness ==
    /\ Retargeted
    /\ voice.start_frequency.d > 1
    /\ voice.current_frequency = voice.start_frequency
    /\ ~FEq(voice.target_frequency, voice.start_frequency)

\* C6: current_frequency lies in [min(start, target), max(start, target)]
\* after every call
C6_RangeInvariant == InRange(voice.current_frequency)

\* the voice is in mid-flight, strictly between its start and its target
C6_Witness ==
    /\ Processed
    /\ voice.state = "IN_TRANSIT_TO_TARGET"
    /\ FLt(freq_low, voice.current_frequency)
    /\ FLt(voice.current_frequency, freq_high)

\* C7: process_voice never raises an error
C7_ProcessNeverFails == call.op = "process_voice" => ~call.thrown

\* C8: with a control point that is NaN or an infinity, process_voice leaves
\* current_frequency finite and inside [min(start, target), max(start, target)]
\* and hands every active oscillator a finite frequency
C8_NonFiniteControlPoints ==
    (Processed /\ ~FiniteControlPoints) =>
        /\ IsFinite(voice.current_frequency)
        /\ InRange(voice.current_frequency)
        /\ \A i \in 1..voice.oscillator_count : IsFinite(voice.oscillators[i].freq)

\* the first call of a transit between two different frequencies has
\* computed a frequency that is not finite
C8_Witness ==
    /\ Processed /\ ~FiniteControlPoints
    /\ trace.called /\ trace.in_state = "PENDING_TRANSIT_TO_TARGET"
    /\ ~IsFinite(trace.unconstrained_freq)
    /\ ~FEq(voice.start_frequency, voice.target_frequency)
    /\ voice.oscillator_count > 1

\* the clock's progress in this call is not below its progress in the call
\* before: the clock has not wrapped in between
NotWrapped ==
    \/ voice.state = "PENDING_TRANSIT_TO_TARGET"
    \/ trace.called /\ FLe(raw, raw')

Monotone ==
    /\ FGt(voice.target_frequency, voice.start_frequency)
           => FGe(voice'.current_frequency, voice.current_frequency)
    /\ FLt(voice.target_frequency, voice.start_frequency)
           => FLe(voice'.current_frequency, voice.current_frequency)

ActiveOscillators == 1..voice.oscillator_count

\* C11: a process_voice call that returns leaves the voice IN_TRANSIT or
\* AT_TARGET; a call entered in PENDING has reset the clock, computed the
\* frequency of progress 0 by the rules of a transit and taken one sample
\* from every active oscillator
C11_PendingConsumed ==
    trace.called =>
        /\ voice.state \in {"IN_TRANSIT_TO_TARGET", "AT_TARGET"}
        /\ trace.state = voice.state
        /\ trace.in_state = "PENDING_TRANSIT_TO_TARGET" =>
               /\ raw = F(0)
               /\ voice.state = "IN_TRANSIT_TO_TARGET"
                      => voice.current_frequency = trace.unconstrained_freq
               /\ voice.state = "AT_TARGET"
                      => voice.current_frequency = voice.target_frequency
               /\ \A i \in ActiveOscillators :
                      /\ trace.osc_value[i] = F(1)
                      /\ voice.oscillators[i].freq
                             = FAdd(voice.current_frequency, voice.oscillators[i].detune_amount)

\* a call entered in PENDING has left the voice in transit at its start
C11_Witness ==
    /\ trace.called /\ trace.in_state = "PENDING_TRANSIT_TO_TARGET"
    /\ voice.state = "IN_TRANSIT_TO_TARGET"
    /\ voice.current_frequency = voice.start_frequency
    /\ ~FEq(voice.start_frequency, voice.target_frequency)
    /\ voice.oscillator_count = 2

\* C12: process_voice leaves an AT_TARGET voice AT_TARGET and an IN_TRANSIT
\* voice IN_TRANSIT or AT_TARGET, moves a PENDING voice on unless it throws,
\* and only set_target_frequency, set_start_frequency and init_voice take a
\* voice back to PENDING
C12_StrictProgression ==
    [][/\ call'.op = "process_voice" =>
              /\ voice.state = "AT_TARGET" => voice'.state = "AT_TARGET"
              /\ voice.state = "IN_TRANSIT_TO_TARGET"
                     => voice'.state \in {"IN_TRANSIT_TO_TARGET", "AT_TARGET"}
              /\ voice.state = "PENDING_TRANSIT_TO_TARGET"
                     => \/ voice'.state \in {"IN_TRANSIT_TO_TARGET", "AT_TARGET"}
                        \/ call'.thrown /\ voice'.state = voice.state
       /\ (voice'.state = "PENDING_TRANSIT_TO_TARGET"
               /\ voice.state # "PENDING_TRANSIT_TO_TARGET")
              => call'.op \in {"set_target_frequency", "set_start_frequency", "init_voice"}]_vars

\* a voice has gone from PENDING through IN_TRANSIT to AT_TARGET: the call
\* that completed the transit was entered IN_TRANSIT, on its third sample
\* or later
C12_Witness ==
    /\ trace.called /\ trace.in_state = "IN_TRANSIT_TO_TARGET"
    /\ voice.state = "AT_TARGET"
    /\ FGt(raw, Norm(1, 4))

\* C13: set_target_frequency(f) and set_start_frequency(f) with f < 0 throw
\* and leave the voice as it was
C13_NegativeRejected ==
    [][(/\ call'.op \in {"set_target_frequency", "set_start_frequency"}
        /\ FLt(call'.arg, F(0))) => (call'.thrown /\ voice' = voice)]_vars

\* a negative frequency has been rejected in mid-flight
C13_Witness ==
    /\ call.op \in {"set_target_frequency", "set_start_frequency"}
    /\ call.thrown
    /\ voice.state = "IN_TRANSIT_TO_TARGET"
    /\ ~FEq(voice.current_frequency, voice.start_frequency)

InvalidInit(a) ==
    \/ a[1] = 0 \/ a[1] > 16
    \/ FLe(a[3], F(0))
    \/ FLt(a[2], F(0))
    \/ FLt(a[4], F(0))

\* C14: init_voice throws if the oscillator count is 0 or above 16, the
\* sample rate is <= 0 or the start or the LFO base frequency is negative,
\* and only then
C14_InitValidation ==
    [][\A a \in ConfigInitArgs : InitVoice(a) => (call'.thrown <=> InvalidInit(a))]_vars

\* init_voice has been rejected on a voice that runs all 16 oscillators
C14_Witness ==
    /\ call.op = "init_voice" /\ call.thrown
    /\ inited
    /\ voice.oscillator_count = 16

\* the indices of the detune ladder of N oscillators, in the order of the
\* oscillators: -floor(N/2), ..., -1, 1, ..., N - floor(N/2), and 0 for N = 1
Ladder(N) ==
    IF N <= 1 THEN [k \in 1..N |-> 0]
    ELSE [k \in 1..(N \div 2) |-> k - (N \div 2) - 1] \o [k \in 1..(N - (N \div 2)) |-> k]

OnLadder(v, N, d) ==
    \A i \in 1..N : v.oscillators[i].detune_amount = FMul(F(Ladder(N)[i]), d)

\* C15: a successful init_voice(count, f, sample_rate, lfo, detune), whatever
\* the voice was before, leaves it PENDING with start = target = current = f,
\* lfo_base_freq = lfo, oscillator_count = count and the detune ladder of
\* count oscillators for detune
C15_InitPostcondition ==
    [][\A a \in InitArgs : (InitVoice(a) /\ ~call'.thrown) =>
           /\ voice'.state = "PENDING_TRANSIT_TO_TARGET"
           /\ voice'.start_frequency = a[2]
           /\ voice'.target_frequency = a[2]
           /\ voice'.current_frequency = a[2]
           /\ voice'.lfo_base_freq = a[4]
           /\ voice'.oscillator_count = a[1]
           /\ OnLadder(voice', a[1], a[5])]_vars

\* a voice that ran two detuned oscillators has been set up again with one
C15_Witness ==
    /\ call.op = "init_voice" /\ ~call.thrown
    /\ setter_calls > 0
    /\ voice.oscillator_count = 1
    /\ voice.oscillators[2].detune_amount = DEFAULT_DETUNE_HZ
    /\ ~FEq(voice.oscillators[2].freq, voice.current_frequency)

\* C16: start_frequency, target_frequency and current_frequency are >= 0
\* after every call, also one that throws
C16_NonNegative ==
    /\ FGe(voice.start_frequency, F(0))
    /\ FGe(voice.target_frequency, F(0))
    /\ FGe(voice.current_frequency, F(0))

\* a call has computed a negative frequency and the voice has not taken it
C16_Witness ==
    /\ trace.called
    /\ FLt(trace.unconstrained_freq, F(0))
    /\ FGe(voice.current_frequency, F(0))

\* C17: after detune_oscillators(d) on N active oscillators, the offsets
\* are, in order, d times -floor(N/2), ..., -1, 1, ..., N - floor(N/2); the
\* one offset of N = 1 is 0, and no index is 0 for N >= 2
C17_DetuneLadder ==
    (call.op = "detune_oscillators" /\ ~call.thrown) =>
        /\ OnLadder(voice, voice.oscillator_count, call.arg)
        /\ voice.oscillator_count >= 2 => \A i \in ActiveOscillators : Ladder(voice.oscillator_count)[i] # 0
        /\ (voice.oscillator_count >= 2 /\ ~IsZero(call.arg))
               => \A i \in ActiveOscillators : ~IsZero(voice.oscillators[i].detune_amount)

\* five oscillators have been detuned by -3 Hz
C17_Witness ==
    /\ call.op = "detune_oscillators"
    /\ voice.oscillator_count = 5
    /\ call.arg = F(-3)
    /\ voice.oscillators[1].detune_amount = F(6)
    /\ voice.oscillators[5].detune_amount = F(-9)

\* C18: for every oscillator count and detune the offsets are symmetric
\* about zero: every offset has its negative among them, and they sum to zero
C18_DetuneSymmetry ==
    inited =>
        \A i \in ActiveOscillators : \E j \in ActiveOscillators :
            voice.oscillators[j].detune_amount = FNeg(voice.oscillators[i].detune_amount)

\* C19: a process_voice call sets every active oscillator to the new current
\* frequency plus its detune and takes one sample from it, leaves the other
\* oscillators alone, and returns the sum of the samples taken
C19_FanOut ==
    [][(call'.op = "process_voice" /\ ~call'.thrown) =>
           /\ voice'.oscillator_count = voice.oscillator_count
           /\ \A i \in 1..MAX_OSCILLATORS :
                  IF i <= voice.oscillator_count
                  THEN /\ voice'.oscillators[i].detune_amount = voice.oscillators[i].detune_amount
                       /\ voice'.oscillators[i].freq
                              = FAdd(voice'.current_frequency, voice.oscillators[i].detune_amount)
                       /\ trace'.osc_value[i] = F(1)
                  ELSE /\ voice'.oscillators[i] = voice.oscillators[i]
                       /\ trace'.osc_value[i] = F(0)]_vars

\* a voice set up again with one oscillator has been processed, and the
\* second oscillator still has the frequency of an earlier sample
C19_Witness ==
    /\ trace.called
    /\ voice.oscillator_count = 1
    /\ voice.oscillators[2].detune_amount = DEFAULT_DETUNE_HZ
    /\ ~FEq(voice.oscillators[2].freq,
            FAdd(voice.current_frequency, voice.oscillators[2].detune_amount))
    /\ voice.oscillators[1].freq = voice.current_frequency

StartSet == call.op = "set_start_frequency" /\ ~call.thrown

TargetValues == {F(0), F(1), F(16)}

\* C20 (as amended): set_start_frequency(f) with f >= 0, in any state, sets
\* start_frequency and current_frequency to f and the state to PENDING and
\* leaves target_frequency alone; and, when the clock rate lfo_base_freq x
\* multiplier is positive, the process_voice calls that follow bring the
\* voice to AT_TARGET on that target
C20_SetStart ==
    /\ [][(call'.op = "set_start_frequency" /\ FGe(call'.arg, F(0))) =>
              /\ ~call'.thrown
              /\ voice'.start_frequency = call'.arg
              /\ voice'.current_frequency = call'.arg
              /\ voice'.target_frequency = voice.target_frequency
              /\ voice'.state = "PENDING_TRANSIT_TO_TARGET"]_vars
    /\ \A n \in 0..MaxSetterCalls : \A g \in TargetValues :
           (inited /\ StartSet /\ voice.target_frequency = g /\ setter_calls = n /\ RatePositive)
               ~> ((AtTarget /\ voice.target_frequency = g) \/ setter_calls # n)

\* a voice set up at 0 Hz has run from a start of 16 Hz, which only
\* set_start_frequency can have given it, down to its target
C20_Witness ==
    /\ inited /\ RatePositive
    /\ setter_calls = 1
    /\ voice.start_frequency = F(16) /\ voice.target_frequency = F(0)
    /\ trace.called /\ trace.in_state = "IN_TRANSIT_TO_TARGET"
    /\ AtTarget

\* C20 (as stated): the same with no condition on the clock rate
C20_Original ==
    /\ [][(call'.op = "set_start_frequency" /\ FGe(call'.arg, F(0))) =>
              /\ ~call'.thrown
              /\ voice'.start_frequency = call'.arg
              /\ voice'.current_frequency = call'.arg
              /\ voice'.target_frequency = voice.target_frequency
              /\ voice'.state = "PENDING_TRANSIT_TO_TARGET"]_vars
    /\ \A n \in 0..MaxSetterCalls : \A g \in TargetValues :
           (inited /\ StartSet /\ voice.target_frequency = g /\ setter_calls = n)
               ~> ((AtTarget /\ voice.target_frequency = g) \/ setter_calls # n)

\* C21: a set_target_frequency call that follows a set_target_frequency
\* call, with no process_voice call in between, changes nothing but the
\* target: start_frequency is still the current frequency, which neither
\* call has changed, and the state is PENDING, as after one call with the
\* last value; and the process_voice call that makes the voice AT_TARGET
\* leaves it on the target set last
C21_LatestWins ==
    /\ [][(/\ call.op = "set_target_frequency" /\ ~call.thrown
           /\ call'.op = "set_target_frequency" /\ ~call'.thrown) =>
              /\ voice' = [voice EXCEPT !.target_frequency = call'.arg]
              /\ voice'.start_frequency = voice.current_frequency
              /\ voice'.current_frequency = voice.current_frequency
              /\ voice'.state = "PENDING_TRANSIT_TO_TARGET"]_vars
    /\ [][(call'.op = "process_voice" /\ ~call'.thrown /\ voice'.state = "AT_TARGET") =>
              /\ voice'.target_frequency = voice.target_frequency
              /\ voice'.current_frequency = voice.target_frequency
              /\ voice'.current_frequency \notin (superseded \ {voice.target_frequency})]_vars

\* a target of 1 Hz was replaced by one of 16 Hz before any sample, and the
\* voice has run to 16 Hz
C21_Witness ==
    /\ superseded = {F(1)}
    /\ voice.target_frequency = F(16)
    /\ trace.called /\ trace.in_state = "IN_TRANSIT_TO_TARGET"
    /\ AtTarget

\* the clock rate lfo_base_freq x multiplier of a call with knobs k is zero
ZeroRate(k) ==
    /\ FGe(k.lfo_multiplier, F(0))
    /\ IsZero(FMul(voice.lfo_base_freq, k.lfo_multiplier))

FarApart ==
    FGt(FAbs(FSub(voice.start_frequency, voice.target_frequency)), F(TARGET_FREQUENCY_TOLERANCE))

C23_TraceSnapshot ==
    [][(call'.op = "process_voice" /\ ~call'.thrown) =>
           /\ trace'.called
           /\ trace'.start_frequency = voice'.start_frequency
           /\ trace'.target_frequency = voice'.target_frequency
           /\ trace'.in_state = voice.state
           /\ trace'.state = voice'.state
           /\ trace'.raw_lfo_value = raw'
           /\ trace'.shaped_lfo_value = shaped'
           /\ trace'.current_frequency = voice'.current_frequency
           /\ trace'.osc_value = osc_value(voice')]_vars

RangeUsed == calc.op = "Range" /\ calc.done

\* C24: for all a and b, also a > b and a = b, Range(a, b) has low the
\* smaller and high the larger of the two, so low <= high; length() is
\* high - low, is not negative, and is the length() of Range(b, a)
C24_RangeNormalization ==
    RangeUsed =>
        LET a == calc.args.a
            b == calc.args.b
            r == calc.out.r
        IN  /\ r.low = (IF FLe(a, b) THEN a ELSE b)
            /\ r.high = (IF FLe(a, b) THEN b ELSE a)
            /\ FLe(r.low, r.high)
            /\ calc.out.length = fl(FSub(r.high, r.low))
            /\ calc.out.length = FAbs(fl(FSub(a, b)))
            /\ FGe(calc.out.length, F(0))
            /\ calc.out.length = calc.out.reversed

\* Range(10, -15): the ends were handed over in reverse, and they are 25 apart
C24_Witness ==
    /\ RangeUsed
    /\ calc.args.a = F(10) /\ calc.args.b = F(-15)
    /\ calc.out.r = [low |-> F(-15), high |-> F(10)]
    /\ FGt(calc.out.length, F(20))

\* C25 (as amended): constrain(v) is low for v < low, high for v > high and
\* v otherwise; for every v that is not NaN, contains(constrain(v)) holds,
\* constrain(v) = v exactly when contains(v), and
\* constrain(constrain(v)) = constrain(v); contains(v) is low <= v <= high;
\* constrain(NaN) is NaN, which no Range contains
C25_RangeClamping ==
    RangeUsed =>
        LET v == calc.args.value
            r == calc.out.r
        IN  /\ calc.out.constrain = (IF FLt(v, r.low) THEN r.low
                                     ELSE IF FGt(v, r.high) THEN r.high ELSE v)
            /\ calc.out.contains = (FLe(r.low, v) /\ FLe(v, r.high))
            /\ calc.out.twice = calc.out.constrain
            /\ ~IsNaN(v) => /\ calc.out.inside
                            /\ FEq(calc.out.constrain, v) = calc.out.contains
            /\ IsNaN(v) => /\ IsNaN(calc.out.constrain)
                           /\ ~calc.out.contains
                           /\ ~calc.out.inside

\* C25 (as stated): contains(constrain(v)) holds for every v
C25_Original ==
    RangeUsed =>
        LET v == calc.args.value
            r == calc.out.r
        IN  /\ calc.out.constrain = (IF FLt(v, r.low) THEN r.low
                                     ELSE IF FGt(v, r.high) THEN r.high ELSE v)
            /\ calc.out.contains = (FLe(r.low, v) /\ FLe(v, r.high))
            /\ calc.out.twice = calc.out.constrain
            /\ calc.out.inside
            /\ FEq(calc.out.constrain, v) = calc.out.contains

\* a value below the range has been clamped to low
C25_Witness ==
    /\ RangeUsed
    /\ calc.args.value = F(-30)
    /\ calc.out.r = [low |-> F(-15), high |-> F(3)]
    /\ ~calc.out.contains
    /\ calc.out.constrain = F(-15)

ScalerUsed == calc.op = "Scaler" /\ calc.done

NonDegenerate(r) == ~FEq(r.low, r.high)

\* C26 (as amended): for a Scaler with a non-degenerate input range,
\* scale(v) is ((v - input.low) / input.length()) x output.length() +
\* output.low, every operation rounded, for every v; scale(input.low) is
\* output.low; scale(input.high) is output.length() + output.low rounded,
\* which is output.high when output.length() is exact and within
\* Epsilon x (|output.low| + |output.high|) of it otherwise; and a value
\* below or above the input range gives a value at or beyond that end of
\* the output range, not one clamped into it
C26_ScalerMapping ==
    (ScalerUsed /\ NonDegenerate(calc.out.input)) =>
        LET A == calc.out.input
            B == calc.out.output
            v == calc.args.value
            len == fl(FSub(B.high, B.low))
        IN  /\ calc.out.scaled
                   = fl(FAdd(fl(FMul(fl(FDiv(fl(FSub(v, A.low)), fl(FSub(A.high, A.low)))),
                                     len)),
                             B.low))
            /\ calc.out.at_low = B.low
            /\ calc.out.at_high = fl(FAdd(len, B.low))
            /\ len = FSub(B.high, B.low) => calc.out.at_high = B.high
            /\ FLe(FAbs(FSub(calc.out.at_high, B.high)),
                   FMul(Epsilon, FAdd(FAbs(B.low), FAbs(B.high))))
            /\ FLt(v, A.low) => FLe(calc.out.scaled, B.low)
            /\ FGt(v, A.high) => FGe(calc.out.scaled, calc.out.at_high)

\* a value beyond the input range has been mapped beyond the output range,
\* through an output range whose length is not exact
C26_Witness ==
    /\ ScalerUsed
    /\ calc.out.input = [low |-> F(0), high |-> F(1)]
    /\ calc.out.output = [low |-> F(-15), high |-> F(10)]
    /\ calc.args.value = F(5)
    /\ FGt(calc.out.scaled, F(10))
    /\ ~FEq(calc.out.at_high, F(10))

\* C26 (as stated): scale(input.high) == output.high
C26_Original ==
    (ScalerUsed /\ NonDegenerate(calc.out.input)) =>
        /\ calc.out.at_low = calc.out.output.low
        /\ calc.out.at_high = calc.out.output.high

\* how far a value may come back from where it started, through Scaler(A, B)
\* and Scaler(B, A): Epsilon times the size of A and v, times how far B lies
\* from 0 in lengths of B
RoundTripTolerance(A, B, v) ==
    FMul(Epsilon,
         FMul(FAdd(FAdd(FAbs(A.low), FAbs(A.high)), FAbs(v)),
              FAdd(F(1), FDiv(FAdd(FAbs(B.low), FAbs(B.high)), FSub(B.high, B.low)))))

\* C27 (as amended): for non-degenerate ranges A and B and every v,
\* Scaler(B, A).scale(Scaler(A, B).scale(v)) is v in exact arithmetic, and
\* in float arithmetic it is within rounding error of v: within Epsilon x
\* (|A.low| + |A.high| + |v|) x (1 + (|B.low| + |B.high|) / B.length());
\* the same for A = B
C27_ScalerRoundTrip ==
    (ScalerUsed /\ NonDegenerate(calc.out.input) /\ NonDegenerate(calc.out.output)) =>
        /\ calc.out.exact = calc.args.value
        /\ FLe(FAbs(FSub(calc.out.back, calc.args.value)),
               RoundTripTolerance(calc.out.input, calc.out.output, calc.args.value))
        /\ calc.out.input = calc.out.output
               => FLe(FAbs(FSub(calc.out.scaled, calc.args.value)),
                      RoundTripTolerance(calc.out.input, calc.out.output, calc.args.value))

\* C27 (as stated): the value comes back as it was
C27_Original ==
    (/\ ScalerUsed
     /\ NonDegenerate(calc.out.input) /\ NonDegenerate(calc.out.output)
     /\ contains(calc.out.input, calc.args.value)) =>
        /\ calc.out.back = calc.args.value
        /\ calc.out.input = calc.out.output => calc.out.scaled = calc.args.value

\* a value of A = [-15, 0] that went to B = [-3, 10] and came back changed
C27_Witness ==
    /\ ScalerUsed
    /\ calc.out.input = Range(F(-15), F(0))
    /\ calc.out.output = Range(F(-3), F(10))
    /\ calc.args.value = F(-3)
    /\ calc.out.exact = F(-3)
    /\ calc.out.scaled = F(8)
    /\ calc.out.back = F(-2)

\* C28: when the input range has zero width, scale(v) returns output.low for
\* every v
C28_DegenerateInput ==
    (ScalerUsed /\ ~NonDegenerate(calc.out.input)) =>
        calc.out.scaled = calc.out.output.low

BezierUsed == calc.op = "BezierUnitShaper" /\ calc.done

\* C29 (as amended): for every pair of finite control points (y2, y3),
\* including negative ones and ones beyond 1, the shaper returns exactly 0
\* at t = 0 and exactly 1 at t = 1
C29_EndpointPinning ==
    (/\ BezierUsed
     /\ IsFinite(calc.args.y2) /\ IsFinite(calc.args.y3)
     /\ calc.args.t \in {F(0), F(1)}) =>
        calc.out.shaped = calc.args.t

\* C29 (as stated): the same for every pair of control points
C29_Original ==
    (BezierUsed /\ calc.args.t \in {F(0), F(1)}) =>
        calc.out.shaped = calc.args.t

\* a curve with control points far outside [0, 1] on both sides, at its end
C29_Witness ==
    /\ BezierUsed
    /\ calc.args.y2 = F(7680) /\ calc.args.y3 = F(-480)
    /\ calc.args.t = F(1)
    /\ calc.out.shaped = F(1)

FirstCallUsed == calc.op = "process_voice" /\ calc.done

\* the first call of a transition over more than 1 Hz, with a valid
\* multiplier and finite control points
FirstCallFarApart ==
    /\ FirstCallUsed
    /\ FGt(FAbs(FSub(calc.args.start, calc.args.target)), F(TARGET_FREQUENCY_TOLERANCE))
    /\ FGe(calc.args.k.lfo_multiplier, F(0))
    /\ IsFinite(calc.args.k.cp[1]) /\ IsFinite(calc.args.k.cp[2])

\* C30: for a voice with |current_frequency - new target| > 1 Hz and finite
\* control points, the first process_voice call after set_target_frequency
\* leaves the state IN_TRANSIT_TO_TARGET and current_frequency at
\* start_frequency (the frequency held before the call), here: within
\* Epsilon x start_frequency of it, whatever phase the clock was left at and
\* whether the transition is ascending or descending
C30_NoJump ==
    FirstCallFarApart =>
        /\ calc.out.before.current_frequency = calc.args.start
        /\ calc.out.exact.v.state = "IN_TRANSIT_TO_TARGET"
        /\ calc.out.exact.v.current_frequency = calc.args.start
        /\ calc.out.rounded.v.state = "IN_TRANSIT_TO_TARGET"
        /\ FLe(FAbs(FSub(calc.args.start, calc.out.rounded.v.current_frequency)),
               FMul(Epsilon, calc.args.start))

\* the clock of the voice v as a process_voice call with multiplier m leaves
\* it when it computes a frequency: set to its rate, read and advanced
ClockStepped(v, m) == lfo_Advance(lfo_SetFreq(v.lfo, FMul(v.lfo_base_freq, m)))

\* C31: a process_voice call resets the progress clock to phase 0 if and
\* only if it is entered in PENDING_TRANSIT_TO_TARGET: entered in PENDING it
\* reads progress 0 and leaves the clock one step from phase 0 (at phase 0
\* if it throws), entered in IN_TRANSIT it reads the progress the clock was
\* left at and leaves it one step from there, entered AT_TARGET it leaves
\* the clock as it was; no setter changes the phase of the clock
C31_ClockReset ==
    /\ [][\A k \in Knobs : (call'.op = "process_voice" /\ ProcessVoice(k)) =>
             /\ (voice.state = "PENDING_TRANSIT_TO_TARGET" /\ ~call'.thrown)
                    => /\ raw' = F(0)
                       /\ voice'.lfo = ClockStepped(reset_lfo(voice), k.lfo_multiplier)
                       /\ voice'.lfo = ClockStepped([voice EXCEPT !.lfo.phase = F(0)],
                                                    k.lfo_multiplier)
             /\ (voice.state = "PENDING_TRANSIT_TO_TARGET" /\ call'.thrown)
                    => voice'.lfo = [voice.lfo EXCEPT !.phase = F(0)]
             /\ (voice.state = "IN_TRANSIT_TO_TARGET" /\ ~call'.thrown)
                    => /\ raw' = voice.lfo.phase
                       /\ voice'.lfo = ClockStepped(voice, k.lfo_multiplier)
             /\ (voice.state = "IN_TRANSIT_TO_TARGET" /\ call'.thrown)
                    => voice'.lfo = voice.lfo
             /\ voice.state = "AT_TARGET" => voice'.lfo = voice.lfo]_vars
    /\ [][call'.op \in {"set_target_frequency", "set_start_frequency",
                        "detune_oscillators", "set_lfo_base_freq"}
             => voice'.lfo = voice.lfo]_vars

\* a transition that was retargeted in mid-flight, its clock past phase 0,
\* has been processed once since: the call read progress 0 and left the
\* clock one step from phase 0
C31_Witness ==
    /\ trace.called /\ trace.in_state = "PENDING_TRANSIT_TO_TARGET"
    /\ voice.state = "IN_TRANSIT_TO_TARGET"
    /\ voice.start_frequency \notin {F(0), F(1), F(16)}
    /\ raw = F(0)
    /\ ~IsZero(voice.lfo.phase_inc)
    /\ voice.lfo.phase = voice.lfo.phase_inc

\* the first call of a transition over at most 1 Hz, with a valid multiplier
FirstCallDegenerate ==
    /\ FirstCallUsed
    /\ FLe(FAbs(FSub(calc.args.start, calc.args.target)), F(TARGET_FREQUENCY_TOLERANCE))
    /\ FGe(calc.args.k.lfo_multiplier, F(0))

\* C32: if |start_frequency - target_frequency| <= 1 Hz, start == target
\* included, the first process_voice call after PENDING raises no error and
\* leaves the voice AT_TARGET with current_frequency == target_frequency,
\* whatever the control points and the phase the clock was left at, in exact
\* and in float arithmetic; with finite control points the frequency it
\* computes is finite (start_frequency in exact arithmetic)
C32_DegenerateRange ==
    FirstCallDegenerate =>
        /\ calc.out.before.state = "PENDING_TRANSIT_TO_TARGET"
        /\ ~calc.out.exact.thrown /\ ~calc.out.rounded.thrown
        /\ calc.out.exact.trace.in_state = "PENDING_TRANSIT_TO_TARGET"
        /\ calc.out.exact.v.state = "AT_TARGET"
        /\ calc.out.exact.v.current_frequency = calc.args.target
        /\ calc.out.rounded.v.state = "AT_TARGET"
        /\ calc.out.rounded.v.current_frequency = calc.args.target
        /\ (IsFinite(calc.args.k.cp[1]) /\ IsFinite(calc.args.k.cp[2]))
               => /\ calc.out.exact.trace.unconstrained_freq = calc.args.start
                  /\ IsFinite(calc.out.rounded.freq)

\* a voice at 1 Hz retargeted to 1.625 Hz, and a voice whose start and
\* target are both 10 Hz, after their first call
C32_Witness ==
    /\ FirstCallUsed
    /\ \/ calc.args.start = F(1) /\ calc.args.target = Norm(13, 8)
       \/ calc.args.start = F(10) /\ calc.args.target = F(10)
    /\ calc.args.phase = Norm(3, 4)
    /\ calc.args.k = Knob(F(1), F(2), F(-1))
    /\ calc.out.exact.v.state = "AT_TARGET"
    /\ calc.out.rounded.v.state = "AT_TARGET"
    /\ calc.out.rounded.v.current_frequency = calc.args.target

\* what the frequency animation of a voice consists of: everything but the
\* oscillator bank
Animation(v) ==
    [state |-> v.state, start_frequency |-> v.start_frequency,
     target_frequency |-> v.target_frequency, current_frequency |-> v.current_frequency,
     lfo_base_freq |-> v.lfo_base_freq, lfo |-> v.lfo]

\* the oscillator banks init_voice leaves for 1, 3 and 16 oscillators, with
\* and without detune
Banks ==
    {init_voice(NewVoice, a[1], F(1), F(4), F(1), a[2]).v :
        a \in {<<1, F(0)>>, <<3, DEFAULT_DETUNE_HZ>>, <<16, F(-4)>>}}

\* the voice v with the oscillator bank of the voice b
WithBank(v, b) ==
    [v EXCEPT !.oscillator_count = b.oscillator_count, !.oscillators = b.oscillators]

\* C33: the frequency animation does not depend on the oscillator bank: for
\* every reachable voice and every set_target_frequency, set_start_frequency
\* and process_voice call, the same call on a voice that differs only in its
\* oscillator count and detune amounts raises an error or not as this one
\* does and leaves the same state, frequencies and clock; so two such
\* voices given the same calls agree after every call
C33_BankIndependence ==
    inited => \A b \in Banks :
        /\ \A freq \in FrequencyArgs :
               /\ Animation(set_target_frequency(WithBank(voice, b), freq).v)
                      = Animation(set_target_frequency(voice, freq).v)
               /\ set_target_frequency(WithBank(voice, b), freq).thrown
                      = set_target_frequency(voice, freq).thrown
               /\ Animation(set_start_frequency(WithBank(voice, b), freq).v)
                      = Animation(set_start_frequency(voice, freq).v)
               /\ set_start_frequency(WithBank(voice, b), freq).thrown
                      = set_start_frequency(voice, freq).thrown
        /\ \A k \in Knobs :
               \E r \in {process_voice(voice, k.lfo_multiplier, k.cp[1], k.cp[2])} :
               \E w \in {process_voice(WithBank(voice, b), k.lfo_multiplier, k.cp[1], k.cp[2])} :
                   /\ Animation(w.v) = Animation(r.v)
                   /\ w.thrown = r.thrown
                   /\ w.trace.state = r.trace.state
                   /\ w.trace.current_frequency = r.trace.current_frequency

\* a voice of two detuned oscillators has completed a transit
C33_Witness ==
    /\ inited
    /\ voice.oscillator_count = 2
    /\ ~IsZero(voice.oscillators[1].detune_amount)
    /\ trace.called /\ trace.in_state = "IN_TRANSIT_TO_TARGET"
    /\ AtTarget
    /\ \E b \in Banks : b.oscillator_count # voice.oscillator_count

\* C34: no process_voice call, whether it returns or throws, changes
\* start_frequency, target_frequency, lfo_base_freq, oscillator_count or a
\* detune amount; it changes only the state, current_frequency, the progress
\* clock and the frequency of the active oscillators
C34_ProcessFrame ==
    [][call'.op = "process_voice" =>
           /\ voice'.start_frequency = voice.start_frequency
           /\ voice'.target_frequency = voice.target_frequency
           /\ voice'.lfo_base_freq = voice.lfo_base_freq
           /\ voice'.oscillator_count = voice.oscillator_count
           /\ \A i \in 1..MAX_OSCILLATORS :
                  /\ voice'.oscillators[i].detune_amount = voice.oscillators[i].detune_amount
                  /\ i > voice.oscillator_count => voice'.oscillators[i] = voice.oscillators[i]
           /\ voice' = [voice EXCEPT
                           !.state = voice'.state,
                           !.current_frequency = voice'.current_frequency,
                           !.lfo = voice'.lfo,
                           !.oscillators = [i \in 1..MAX_OSCILLATORS |->
                               [voice.oscillators[i] EXCEPT
                                   !.freq = voice'.oscillators[i].freq]]]]_vars

\* a voice of two detuned oscillators in the middle of a transit, after a
\* process_voice call that moved its frequency and its clock
C34_Witness ==
    /\ trace.called /\ trace.in_state = "IN_TRANSIT_TO_TARGET"
    /\ voice.state = "IN_TRANSIT_TO_TARGET"
    /\ voice.oscillator_count = 2
    /\ ~IsZero(voice.oscillators[1].detune_amount)
    /\ voice.current_frequency \notin {voice.start_frequency, voice.target_frequency}
    /\ ~IsZero(voice.lfo.phase)
    /\ voice.oscillators[2].freq
           = FAdd(voice.current_frequency, voice.oscillators[2].detune_amount)

\* C35: detune_oscillators and set_lfo_base_freq leave state,
\* start_frequency, target_frequency and current_frequency as they are, in
\* every state; they do not move the progress clock either
C35_SetterFrame ==
    [][call'.op \in {"detune_oscillators", "set_lfo_base_freq"} =>
           /\ ~call'.thrown
           /\ voice'.state = voice.state
           /\ voice'.start_frequency = voice.start_frequency
           /\ voice'.target_frequency = voice.target_frequency
           /\ voice'.current_frequency = voice.current_frequency
           /\ voice'.lfo = voice.lfo]_vars

\* the base rate of the clock has been set to 0 in the middle of a transit
\* that ran at rate 1, and the transit is where it was
C35_Witness ==
    /\ call.op = "set_lfo_base_freq"
    /\ voice.state = "IN_TRANSIT_TO_TARGET"
    /\ IsZero(voice.lfo_base_freq)
    /\ ~IsZero(voice.lfo.phase_inc)
    /\ ~IsZero(voice.lfo.phase)
    /\ voice.current_frequency \notin {voice.start_frequency, voice.target_frequency}

\* the oscillators have been detuned in the middle of a transit, and the
\* transit is where it was
C35_WitnessDetune ==
    /\ call.op = "detune_oscillators"
    /\ voice.state = "IN_TRANSIT_TO_TARGET"
    /\ voice.oscillator_count = 2
    /\ voice.oscillators[1].detune_amount # voice.oscillators[1].freq
    /\ voice.current_frequency \notin {voice.start_frequency, voice.target_frequency}

\* the frequency the last process_voice call computed lies outside the range
\* between the start and the target frequency
ComputedOutside ==
    ~contains(Range(StdMin(voice.start_frequency, voice.target_frequency),
                    StdMax(voice.start_frequency, voice.target_frequency)),
              trace.unconstrained_freq)

\* C36: the clamp never alters the frequency of a transit: a process_voice
\* call that leaves the voice IN_TRANSIT has stored the scaled frequency it
\* computed, unclamped, and a call that computed a frequency outside the
\* range between start and target has left the voice AT_TARGET at the target
C36_ClampIdle ==
    (call.op = "process_voice" /\ trace.called /\ trace.in_state # "AT_TARGET") =>
        /\ voice.state = "IN_TRANSIT_TO_TARGET"
               => /\ voice.current_frequency = trace.unconstrained_freq
                  /\ constrain_frequency(voice, trace.unconstrained_freq)
                         = trace.unconstrained_freq
        /\ ComputedOutside
               => /\ voice.state = "AT_TARGET"
                  /\ voice.current_frequency = voice.target_frequency

\* a call has left the voice in transit strictly between start and target
C36_Witness ==
    /\ call.op = "process_voice" /\ trace.called
    /\ trace.in_state = "IN_TRANSIT_TO_TARGET"
    /\ voice.state = "IN_TRANSIT_TO_TARGET"
    /\ voice.current_frequency = trace.unconstrained_freq
    /\ voice.current_frequency \notin {voice.start_frequency, voice.target_frequency}

\* a call has computed a finite frequency outside the range, which the clamp
\* would have altered, and the voice is at its target
C36_WitnessOutside ==
    /\ call.op = "process_voice" /\ trace.called
    /\ trace.in_state # "AT_TARGET"
    /\ IsFinite(trace.unconstrained_freq)
    /\ ComputedOutside
    /\ constrain_frequency(voice, trace.unconstrained_freq) # trace.unconstrained_freq
    /\ voice.state = "AT_TARGET"

\* C36 in rounded arithmetic: the first call of a transit that leaves the
\* voice IN_TRANSIT has stored the rounded frequency it computed
C36_ClampIdleRounded ==
    (FirstCallUsed /\ ~calc.out.rounded.thrown
       /\ calc.out.rounded.v.state = "IN_TRANSIT_TO_TARGET") =>
        calc.out.rounded.v.current_frequency = calc.out.rounded.freq

\* the first call of a descending transit has stayed in transit at a rounded
\* frequency that differs from the exact one
C36_WitnessRounded ==
    /\ FirstCallUsed /\ ~calc.out.rounded.thrown
    /\ calc.out.rounded.v.state = "IN_TRANSIT_TO_TARGET"
    /\ calc.out.rounded.freq # calc.out.exact.trace.unconstrained_freq

\* C37: an init_voice call that throws leaves oscillator_count and the
\* oscillators, their detune amounts among them, as they were. It leaves the
\* whole voice as it was only when it is the start frequency that is
\* rejected; a call that throws on the sample rate, on the LFO frequency or
\* on the oscillator count has already set start_frequency,
\* current_frequency and target_frequency to its start frequency and the
\* state to PENDING, and a call that throws on the oscillator count has set
\* lfo_base_freq and initialised the clock as well
C37_FailedInit ==
    [][\A a \in InitArgs :
           (call'.op = "init_voice" /\ call'.thrown /\ InitVoice(a)) =>
               /\ voice'.oscillator_count = voice.oscillator_count
               /\ voice'.oscillators = voice.oscillators
               /\ IF FLt(a[2], F(0))
                  THEN voice' = voice
                  ELSE /\ voice'.start_frequency = a[2]
                       /\ voice'.current_frequency = a[2]
                       /\ voice'.target_frequency = a[2]
                       /\ voice'.state = "PENDING_TRANSIT_TO_TARGET"
                       /\ IF FLe(a[3], F(0)) \/ FLt(a[4], F(0))
                          THEN /\ voice'.lfo_base_freq = voice.lfo_base_freq
                               /\ voice'.lfo = voice.lfo
                          ELSE /\ voice'.lfo_base_freq = a[4]
                               /\ voice'.lfo = init_lfo(voice, a[3], a[4]).v.lfo]_vars

\* C37 as the specification states it: an init_voice call that throws leaves
\* state, start_frequency, target_frequency, current_frequency,
\* lfo_base_freq, oscillator_count and the detune amounts as they were
C37_Original ==
    [][(call'.op = "init_voice" /\ call'.thrown) =>
           /\ voice'.state = voice.state
           /\ voice'.start_frequency = voice.start_frequency
           /\ voice'.target_frequency = voice.target_frequency
           /\ voice'.current_frequency = voice.current_frequency
           /\ voice'.lfo_base_freq = voice.lfo_base_freq
           /\ voice'.oscillator_count = voice.oscillator_count
           /\ \A i \in 1..MAX_OSCILLATORS :
                  voice'.oscillators[i].detune_amount = voice.oscillators[i].detune_amount]_vars

\* a voice of one oscillator, initialised at 16 Hz, after an init_voice call
\* for 1 Hz that threw: the voice is pending at 1 Hz and its oscillator has
\* kept the frequency it had
C37_Witness ==
    /\ inited /\ call.op = "init_voice" /\ call.thrown
    /\ voice.oscillator_count = 1
    /\ voice.oscillators[1].freq = F(16)
    /\ voice.start_frequency = F(1)
    /\ voice.current_frequency = F(1)
    /\ voice.target_frequency = F(1)
    /\ voice.state = "PENDING_TRANSIT_TO_TARGET"

\* an init_voice call that threw on the oscillator count has set the base
\* rate of the clock back to 1 and the phase of the clock to 0
C37_WitnessCount ==
    /\ inited /\ call.op = "init_voice" /\ call.thrown
    /\ call.arg = F(0)
    /\ voice.oscillator_count = 1
    /\ voice.start_frequency = F(0)
    /\ voice.lfo_base_freq = F(1)
    /\ IsZero(voice.lfo.phase)
    /\ FGt(voice.oscillators[1].freq, F(0))

\* C38: the frequency a process_voice call hands to an active oscillator is
\* current_frequency plus the oscillator's detune amount, unchecked: it is
\* >= 0 for a single oscillator and for detune 0, and otherwise exactly for
\* the oscillators whose detune amount is not below -current_frequency
C38_OscillatorFrequency ==
    (call.op = "process_voice" /\ trace.called) =>
        \A i \in ActiveOscillators :
            /\ voice.oscillators[i].freq
                   = FAdd(voice.current_frequency, voice.oscillators[i].detune_amount)
            /\ FGe(voice.oscillators[i].freq, F(0))
                   <=> FGe(voice.oscillators[i].detune_amount, FNeg(voice.current_frequency))
            /\ (voice.oscillator_count = 1 \/ IsZero(voice.oscillators[i].detune_amount))
                   => /\ voice.oscillators[i].freq = voice.current_frequency
                      /\ FGe(voice.oscillators[i].freq, F(0))

\* C38 as the specification states it: every frequency a process_voice call
\* hands to an active oscillator is >= 0
C38_Original ==
    (call.op = "process_voice" /\ trace.called) =>
        \A i \in ActiveOscillators : FGe(voice.oscillators[i].freq, F(0))

\* two oscillators detuned by the default 2.5 Hz around a voice in transit
\* below 2.5 Hz: the lower oscillator has been handed a negative frequency,
\* the upper one a positive frequency
C38_Witness ==
    /\ call.op = "process_voice" /\ trace.called
    /\ voice.oscillator_count = 2
    /\ voice.state = "IN_TRANSIT_TO_TARGET"
    /\ FGt(voice.current_frequency, F(0))
    /\ voice.oscillators[1].detune_amount = FNeg(DEFAULT_DETUNE_HZ)
    /\ FLt(voice.oscillators[1].freq, F(0))
    /\ FGt(voice.oscillators[2].freq, F(0))

\* the step over 0 of the detune ladder
LadderStep(i, half) == IF i >= half THEN 1 ELSE 0

\* C39: for every oscillator count N in 2..16 and every i in 0..N-1 the
\* index of detune_oscillators, computed in unsigned arithmetic as
\* i - half + (i >= half ? 1 : 0) with half = floor(N/2), which wraps when
\* i < half, and narrowed to int8_t, is the integer
\* i - floor(N/2) + [i >= floor(N/2)], and the offset stored for oscillator i
\* is that integer times the detune
C39_IndexArithmetic ==
    (call.op = "detune_oscillators" /\ ~call.thrown /\ voice.oscillator_count >= 2) =>
        LET N    == voice.oscillator_count
            half == N \div 2
        IN  \A i \in 0..(N - 1) :
                /\ (i < half) <=> (SizeWrap(i - half) >= 2 ^ (SizeBits - 1))
                /\ detune_idx(i, half) = i - half + LadderStep(i, half)
                /\ voice.oscillators[i + 1].detune_amount
                       = FMul(F(i - half + LadderStep(i, half)), call.arg)

\* sixteen oscillators have been detuned by -3 Hz: the index of the first
\* has wrapped to 2^SizeBits - 8 and has been narrowed to -8, the index of
\* the last is 8
C39_Witness ==
    /\ call.op = "detune_oscillators" /\ ~call.thrown
    /\ call.arg = F(-3)
    /\ voice.oscillator_count = MAX_OSCILLATORS
    /\ SizeWrap(0 - 8) = 2 ^ SizeBits - 8
    /\ detune_idx(0, 8) = -8
    /\ voice.oscillators[1].detune_amount = F(24)
    /\ voice.oscillators[MAX_OSCILLATORS].detune_amount = F(-24)

====
